---- MODULE Spec2Model ----
(***************************************************************************)
(* Distributed local-extrema pipeline of CS633-Assignment.                 *)
(*                                                                         *)
(*   sainikhil_code/src.c   variables cfg .. out        (Spec, SpecRange)  *)
(*   Venkatesh/1.c          variables v_cfg .. v_out    (SpecV)            *)
(*   Pankaj/pankaj_code2.c  variables q_cfg .. q_out    (SpecQ)            *)
(*                                                                         *)
(* Real values are modelled by integers; FLT_MAX is a sentinel larger than *)
(* every field value.  C arrays are functions over 0-based index ranges.   *)
(***************************************************************************)
EXTENDS Integers, Sequences, FiniteSets, TLC

\* ------------------------------------------------------------------ bounds
\* largest axis extent of a generated domain
MaxN == 3
\* largest number of (point, timestep) cells of a generated field
MaxCells == 6
\* largest number of workers of a generated process grid
MaxWorkers == 2
\* largest number of timesteps of a generated run
MaxNC == 2
\* generated free fields take their values in -MaxVal .. MaxVal
MaxVal == 1
\* domains with at most this many (point, timestep) cells get every field
MaxFreeCells == 2
\* largest axis extent handed to get_range on its own
MaxExtent == 8
\* the longest elapsed time a rank may measure; the shortest is 1
MaxInterval == 2

\* ---------------------------------------------------------- C constants
FLT_MAX == 999
DBL_MAX == 9999
MPI_PROC_NULL == -1

\* ------------------------------------------------------------- helpers
SetMin(S) == CHOOSE m \in S : \A o \in S : m <= o
SetMax(S) == CHOOSE m \in S : \A o \in S : m >= o

\* ===================================================== sainikhil_code/src.c
VARIABLES
    cfg,          \* argv and MPI_Comm_size: NX NY NZ PX PY PZ NC size
    global_data,  \* the input file: [point -> [t -> value]]
    pc,           \* [rank -> control location]
    dist_p,       \* rank 0's loop counter p of the distribution loop
    local_data,   \* [rank -> [local point -> [t -> value]]]
    tstep,        \* [rank -> loop counter t of the compute loop]
    halo,         \* [rank -> [<<i,j,k>> -> value]]
    lext,         \* [rank -> <<lmin, lmax>>] of the current timestep
    local_mins,   \* [rank -> [t -> count]]
    local_maxs,   \* [rank -> [t -> count]]
    global_min,   \* [rank -> [t -> value]]
    global_max,   \* [rank -> [t -> value]]
    chan,         \* [<<src,dst>> -> sequence of messages in flight on cart_comm]
    posted,       \* [<<src,dst>> -> the sends made on cart_comm so far, in order:
                  \*  which call made each, and in which timestep]
    ar_min,       \* [t -> [rank -> contribution to MPI_Allreduce(MPI_MIN)]]
    ar_max,       \* [t -> [rank -> contribution to MPI_Allreduce(MPI_MAX)]]
    red_mins,     \* [rank -> contribution to MPI_Reduce(local_mins)]
    red_maxs,     \* [rank -> contribution to MPI_Reduce(local_maxs)]
    total_mins,   \* rank 0's total_mins
    total_maxs,   \* rank 0's total_maxs
    main_time,    \* [rank -> t_end - t_start as the rank measured it, 0 before]
    out           \* the output file, <<>> until written

VARIABLES
    gr_size,      \* get_range on its own: the axis extent
    gr_total,     \* the number of workers along the axis
    gr_rank,      \* the next worker coordinate to be asked for
    gr_out        \* the ranges returned so far

varsS == <<cfg, global_data, pc, dist_p, local_data, tstep, halo, lext,
           local_mins, local_maxs, global_min, global_max, chan, posted,
           ar_min, ar_max, red_mins, red_maxs, total_mins, total_maxs,
           main_time, out>>
varsR == <<gr_size, gr_total, gr_rank, gr_out>>

\* ============================================================ Venkatesh/1.c
VARIABLES
    v_cfg,        \* argv and MPI_Comm_size, as cfg (NC is nt)
    v_sync,       \* whether MPI_Send returns only once the message is received
    v_full,       \* the input file: [point -> [t -> value]]
    v_pc,         \* [rank -> control location]
    v_r,          \* rank 0's loop counter r of the send loop
    v_it,         \* rank 0's position in the z, y, x loops of the current r
    v_chan,       \* [rank -> sequence of messages from rank 0 in flight]
    v_local,      \* [rank -> local_data, the ghost-extended flat array]
    v_sent,       \* [rank -> number of MPI_Send calls rank 0 has made to it]
    v_part,       \* [rank -> min_counts, max_counts, min_values, max_values]
    v_out         \* the output file, <<>> until written

varsV == <<v_cfg, v_sync, v_full, v_pc, v_r, v_it, v_chan, v_local, v_sent,
           v_part, v_out>>

\* ==================================================== Pankaj/pankaj_code2.c
VARIABLES
    q_cfg,        \* argv and MPI_Comm_size, as cfg (NC is timeSteps)
    q_global,     \* the input file: [point -> [t -> value]]
    q_pc,         \* [rank -> control location]
    q_p,          \* rank 0's loop counter p of the send loop
    q_chan,       \* [rank -> sequence of messages from rank 0 in flight]
    q_local,      \* [rank -> localData, a flat array]
    q_part,       \* [rank -> <<localMinimaCount, localMaximaCount,
                  \*            subDomainMinValues, subDomainMaxValues>>]
    q_k,          \* [rank -> how many of the MPI_Reduce calls it has entered]
    q_res,        \* rank 0's results of the MPI_Reduce calls completed so far
    q_out         \* the output file, <<>> until written

varsQ == <<q_cfg, q_global, q_pc, q_p, q_chan, q_local, q_part, q_k,
           q_res, q_out>>

\* ===================================================== Pankaj/pankaj_code.c
VARIABLES
    p_cfg,        \* argv and MPI_Comm_size, as cfg (NC is timeSteps)
    p_global,     \* the input file: [point -> [t -> value]]
    p_pc,         \* [rank -> control location]
    p_p,          \* rank 0's loop counter p of the send loop
    p_chan,       \* [rank -> sequence of messages from rank 0 in flight]
    p_local,      \* [rank -> localData, a flat array]
    p_part,       \* [rank -> localMinimaCount, localMaximaCount,
                  \*          subDomainMinValues, subDomainMaxValues]
    p_k,          \* [rank -> how many of the MPI_Reduce calls it has entered]
    p_res,        \* rank 0's results of the MPI_Reduce calls completed so far
    p_out         \* the output file, <<>> until written

varsP == <<p_cfg, p_global, p_pc, p_p, p_chan, p_local, p_part, p_k,
           p_res, p_out>>

vars == <<varsS, varsR, varsV, varsQ, varsP>>

\* an array nothing has been stored in yet; a collective nobody has entered
EmptyFn == [x \in {} |-> 0]

\* --------------------------------------------------------------- get_range
RECURSIVE get_range_start(_, _, _)
get_range_start(rank, base, remainder) ==
    IF rank <= 0 THEN 0
    ELSE get_range_start(rank - 1, base, remainder)
         + base + (IF rank - 1 < remainder THEN 1 ELSE 0)

RECURSIVE get_range_start_le(_, _, _)
get_range_start_le(rank, base, remainder) ==
    IF rank <= 0 THEN 0
    ELSE get_range_start_le(rank - 1, base, remainder)
         + base + (IF rank - 1 <= remainder THEN 1 ELSE 0)

\* the loop's comparison written i <= remainder
get_range_le(rank, total, size) ==
    LET base == size \div total
        remainder == size % total
        start == get_range_start_le(rank, base, remainder)
        local_size == base + (IF rank < remainder THEN 1 ELSE 0)
    IN  [start |-> start, end |-> start + local_size - 1, size |-> local_size]

get_range(rank, total, size) ==
    LET base == size \div total
        remainder == size % total
        start == get_range_start(rank, base, remainder)
        local_size == base + (IF rank < remainder THEN 1 ELSE 0)
    IN  [start |-> start, end |-> start + local_size - 1, size |-> local_size]

\* ------------------------------------------------- the Cartesian communicator
Ranks == 0 .. cfg.size - 1
Steps == 0 .. cfg.NC - 1

\* MPI_Cart_coords on dims {PX,PY,PZ}: row-major, last dimension fastest
MPI_Cart_coords(c, rank) ==
    <<rank \div (c.PY * c.PZ), (rank \div c.PZ) % c.PY, rank % c.PZ>>

CartRank(c, co) == (co[1] * c.PY + co[2]) * c.PZ + co[3]

\* the neighbours taken to be the ranks next to one's own number
MPI_Cart_shift_byRank(c, rank, dim) ==
    <<IF rank - 1 >= 0 THEN rank - 1 ELSE MPI_PROC_NULL,
      IF rank + 1 < c.size THEN rank + 1 ELSE MPI_PROC_NULL>>

\* MPI_Cart_shift(cart_comm, dim, 1, &lo, &hi), periods = {0,0,0}
MPI_Cart_shift(c, rank, dim) ==
    LET co == MPI_Cart_coords(c, rank)
        ext == <<c.PX, c.PY, c.PZ>>
        lo == IF co[dim] - 1 >= 0
              THEN CartRank(c, [co EXCEPT ![dim] = co[dim] - 1]) ELSE MPI_PROC_NULL
        hi == IF co[dim] + 1 < ext[dim]
              THEN CartRank(c, [co EXCEPT ![dim] = co[dim] + 1]) ELSE MPI_PROC_NULL
    IN  <<lo, hi>>

x_range(c, rank) == get_range(MPI_Cart_coords(c, rank)[1], c.PX, c.NX)
y_range(c, rank) == get_range(MPI_Cart_coords(c, rank)[2], c.PY, c.NY)
z_range(c, rank) == get_range(MPI_Cart_coords(c, rank)[3], c.PZ, c.NZ)
x_local(c, rank) == x_range(c, rank).size
y_local(c, rank) == y_range(c, rank).size
z_local(c, rank) == z_range(c, rank).size
local_points(c, rank) == x_local(c, rank) * y_local(c, rank) * z_local(c, rank)

\* ------------------------------------------------------------------ inputs
Cfg(nx, ny, nz, px, py, pz, nc) ==
    [NX |-> nx, NY |-> ny, NZ |-> nz, PX |-> px, PY |-> py, PZ |-> pz,
     NC |-> nc, size |-> px * py * pz]

\* process grids the programs accept: PX*PY*PZ = size, no worker without points
GeneratedCfgs ==
    { c \in [NX : 1 .. MaxN, NY : 1 .. MaxN, NZ : 1 .. MaxN,
             PX : 1 .. MaxN, PY : 1 .. MaxN, PZ : 1 .. MaxN,
             NC : 1 .. MaxNC, size : 1 .. MaxWorkers] :
        /\ c.NX * c.NY * c.NZ * c.NC <= MaxCells
        /\ c.PX * c.PY * c.PZ = c.size
        /\ c.PX <= c.NX /\ c.PY <= c.NY /\ c.PZ <= c.NZ }

\* the two-worker halo scenario, the single-worker end-to-end scenario and a
\* 2 x 2 process grid
CfgTwoWorker == Cfg(4, 1, 1, 2, 1, 1, 1)
CfgEndToEnd == Cfg(2, 2, 2, 1, 1, 1, 1)
CfgGrid4 == Cfg(2, 3, 1, 2, 2, 1, 1)
CfgChain3 == Cfg(3, 1, 1, 3, 1, 1, 2)

NPoints(c) == c.NX * c.NY * c.NZ

FieldOfSeq(sq) == [g \in 0 .. Len(sq) - 1 |-> [t \in {0} |-> sq[g + 1]]]
FieldTwoWorker == FieldOfSeq(<<5, 1, 1, 9>>)
FieldEndToEnd == FieldOfSeq(<<0, 7, 3, 9, 1, 8, 4, 2>>)

\* every value distinct, ascending in input order
Ramp(c) == [g \in 0 .. NPoints(c) - 1 |-> [t \in 0 .. c.NC - 1 |-> g * c.NC + t + 1]]
\* interior extrema, different in every timestep
Zigzag(c) ==
    [g \in 0 .. NPoints(c) - 1 |-> [t \in 0 .. c.NC - 1 |-> (((g * 5) + (t * 3)) % 7) - 3]]
\* every value identical
Flat(c) == [g \in 0 .. NPoints(c) - 1 |-> [t \in 0 .. c.NC - 1 |-> 0]]
Negated(f) == [g \in DOMAIN f |-> [t \in DOMAIN f[g] |-> 0 - f[g][t]]]

FieldsOf(c) ==
    {Ramp(c), Negated(Ramp(c)), Zigzag(c), Flat(c)}
    \cup (IF NPoints(c) * c.NC <= MaxFreeCells
          THEN [0 .. NPoints(c) - 1 -> [0 .. c.NC - 1 -> (0 - MaxVal) .. MaxVal]]
          ELSE {})

Inputs ==
    { <<c, f>> \in GeneratedCfgs \X UNION {FieldsOf(c) : c \in GeneratedCfgs} :
        f \in FieldsOf(c) }
    \cup {<<CfgTwoWorker, FieldTwoWorker>>, <<CfgEndToEnd, FieldEndToEnd>>,
          <<CfgGrid4, Ramp(CfgGrid4)>>}

\* argv whose process grid is not the number of processes started
Mismatch(c) == c.PX * c.PY * c.PZ # c.size

MismatchedCfgs ==
    { c \in { [Cfg(2, 2, 1, px, py, 1, 1) EXCEPT !.size = n] :
                  px \in 1 .. 2, py \in 1 .. 2, n \in 1 .. MaxWorkers } : Mismatch(c) }

GridInputs ==
    {<<c, Ramp(c)>> : c \in MismatchedCfgs} \cup {<<CfgTwoWorker, FieldTwoWorker>>}

\* argv that passes the grid check of lines 48-52 with more workers along an
\* axis than the axis has points
ZeroPoint(c) == c.NX < c.PX \/ c.NY < c.PY \/ c.NZ < c.PZ

ZeroPointCfgs ==
    { c \in [NX : {1}, NY : {1}, NZ : {1},
             PX : 1 .. MaxWorkers, PY : 1 .. MaxWorkers, PZ : 1 .. MaxWorkers,
             NC : 1 .. MaxNC, size : 1 .. MaxWorkers] :
        c.PX * c.PY * c.PZ = c.size /\ ZeroPoint(c) }

ZeroPointInputs ==
    { <<c, f>> \in ZeroPointCfgs \X UNION {FieldsOf(c) : c \in ZeroPointCfgs} :
        f \in FieldsOf(c) }

\* two timesteps on two workers whose x-face, 3 x 1 points, is longer than a
\* row of the halo array
CfgTwoSteps == Cfg(2, 3, 1, 2, 1, 1, 2)

\* every generated process grid, a 2x2 grid and a chain of three workers whose
\* middle one has both neighbours, each on one field, and the two-timestep run
\* above
ExchangeInputs ==
    {<<c, Ramp(c)>> : c \in GeneratedCfgs \cup {CfgGrid4, CfgChain3}}
    \cup {<<CfgTwoSteps, Flat(CfgTwoSteps)>>}

\* what a read outside an allocated row may return
Garbage == {0, FLT_MAX}

\* -------------------------------------------------------------- distribution
\* the packing loops nested for x, for y, for z
PackBufferXOuter(c, gd, p) ==
    LET pxr == x_range(c, p)
        pyr == y_range(c, p)
        pzr == z_range(c, p)
        psize == pxr.size * pyr.size * pzr.size
    IN  [b \in 0 .. psize * c.NC - 1 |->
            LET idx == b \div c.NC
                z == pzr.start + (idx % pzr.size)
                y == pyr.start + ((idx \div pzr.size) % pyr.size)
                x == pxr.start + (idx \div (pzr.size * pyr.size))
                gidx == (z * (c.NX * c.NY)) + (y * c.NX) + x
            IN  gd[gidx][(b % c.NC)]]

\* rank 0 packs the block of rank p: for z, for y, for x, NC floats per point
PackBuffer(c, gd, p) ==
    LET pxr == x_range(c, p)
        pyr == y_range(c, p)
        pzr == z_range(c, p)
        psize == pxr.size * pyr.size * pzr.size
    IN  [b \in 0 .. psize * c.NC - 1 |->
            LET idx == b \div c.NC
                x == pxr.start + (idx % pxr.size)
                y == pyr.start + ((idx \div pxr.size) % pyr.size)
                z == pzr.start + (idx \div (pxr.size * pyr.size))
                gidx == (z * (c.NX * c.NY)) + (y * c.NX) + x
            IN  gd[gidx][(b % c.NC)]]

\* memcpy(local_data[i], buffer + i * NC, NC * sizeof(float)) for i < n
Unpack(c, buffer, n) ==
    [i \in 0 .. n - 1 |-> [t \in 0 .. c.NC - 1 |-> buffer[i * c.NC + t]]]

\* --------------------------------------------------------------- halo array
HaloCells(c, w) ==
    (0 .. x_local(c, w) + 1) \X (0 .. y_local(c, w) + 1) \X (0 .. z_local(c, w) + 1)

Interior(c, w) ==
    (1 .. x_local(c, w)) \X (1 .. y_local(c, w)) \X (1 .. z_local(c, w))

\* lines 151-159: sub_data[idx++] = local_data[z*y_local*x_local + y*x_local + x][t]
sub_data(c, ld, w, t) ==
    LET xl == x_local(c, w)
        yl == y_local(c, w)
    IN  [idx \in 0 .. local_points(c, w) - 1 |->
            LET x == idx % xl
                y == (idx \div xl) % yl
                z == idx \div (xl * yl)
            IN  ld[(z * yl * xl) + (y * xl) + x][t]]

\* lines 161-179: every cell FLT_MAX, then halo[i][j][k] = sub_data[idx++]
\* in the order for i, for j, for k
FilledHalo(c, ld, w, t) ==
    LET yl == y_local(c, w)
        zl == z_local(c, w)
        sub == sub_data(c, ld, w, t)
    IN  [cell \in HaloCells(c, w) |->
            IF cell \in Interior(c, w)
            THEN sub[(((cell[1] - 1) * yl + (cell[2] - 1)) * zl) + (cell[3] - 1)]
            ELSE FLT_MAX]

\* lines 188, 192: y_local * z_local floats read from &halo[i][1][1].  The row
\* halo[i][1] holds z_local + 2 floats; a read past it returns garbage g.
SendBuf(c, h, w, i, g) ==
    LET n == y_local(c, w) * z_local(c, w)
        zl == z_local(c, w)
    IN  [e \in 0 .. n - 1 |-> IF 1 + e <= zl + 1 THEN h[<<i, 1, 1 + e>>] ELSE g]

\* lines 189, 193: the floats received are stored from &halo[i][1][1] on.  A
\* store past the row lands in allocator padding (target = <<>>) or on an owned
\* cell of another row of the halo (target = that cell): the rows are separate
\* heap blocks and which one follows is the allocator's choice.
RecvBuf(c, h, w, i, msg, target) ==
    LET zl == z_local(c, w)
    IN  [cell \in DOMAIN h |->
            IF cell[1] = i /\ cell[2] = 1 /\ cell[3] >= 1 /\ (cell[3] - 1) \in DOMAIN msg
            THEN msg[cell[3] - 1]
            ELSE IF target = cell /\ (zl + 1) \in DOMAIN msg
                 THEN msg[zl + 1]
                 ELSE h[cell]]

\* whether the face transfer of worker w runs past the row it starts in
Overruns(c, w) == y_local(c, w) * z_local(c, w) > z_local(c, w) + 1

ReadOutcomes(c, w) == IF Overruns(c, w) THEN Garbage ELSE {0}
WriteOutcomes(c, w) == IF Overruns(c, w) THEN {<<>>} \cup Interior(c, w) ELSE {<<>>}

\* lines 187-194 and 287-294: a receive that stored past the row halo[0][1] or
\* halo[x_local+1][1] has written over whatever the allocator keeps behind
\* that row; the rows are handed back to free() at the end of the same
\* iteration, which either goes through or aborts the process
FreeOutcomes(c, w) ==
    IF /\ Overruns(c, w)
       /\ \/ MPI_Cart_shift(c, w, 1)[1] # MPI_PROC_NULL
          \/ MPI_Cart_shift(c, w, 1)[2] # MPI_PROC_NULL
    THEN {"freed", "aborted"}
    ELSE {"freed"}

\* ----------------------------------------------------------- classification
\* lines 243-250
neighbors(i, j, k) ==
    << <<i - 1, j, k>>, <<i + 1, j, k>>, <<i, j - 1, k>>,
       <<i, j + 1, k>>, <<i, j, k - 1>>, <<i, j, k + 1>> >>

\* only the halo array's own bounds tested, the global grid's not
SkippedHaloOnly(c, w, nb) ==
    \/ nb[1] < 0 \/ nb[1] >= x_local(c, w) + 2
    \/ nb[2] < 0 \/ nb[2] >= y_local(c, w) + 2
    \/ nb[3] < 0 \/ nb[3] >= z_local(c, w) + 2

\* the global grid's lower bounds tested, its upper bounds not
SkippedLowerOnly(c, w, nb) ==
    \/ nb[1] < 0 \/ nb[1] >= x_local(c, w) + 2
    \/ nb[2] < 0 \/ nb[2] >= y_local(c, w) + 2
    \/ nb[3] < 0 \/ nb[3] >= z_local(c, w) + 2
    \/ x_range(c, w).start + nb[1] - 1 < 0
    \/ y_range(c, w).start + nb[2] - 1 < 0
    \/ z_range(c, w).start + nb[3] - 1 < 0

\* lines 258-262: outside the halo array or outside the global grid
Skipped(c, w, nb) ==
    LET xr == x_range(c, w)
        yr == y_range(c, w)
        zr == z_range(c, w)
    IN  \/ nb[1] < 0 \/ nb[1] >= xr.size + 2
        \/ nb[2] < 0 \/ nb[2] >= yr.size + 2
        \/ nb[3] < 0 \/ nb[3] >= zr.size + 2
        \/ xr.start + nb[1] - 1 < 0 \/ xr.start + nb[1] - 1 >= c.NX
        \/ yr.start + nb[2] - 1 < 0 \/ yr.start + nb[2] - 1 >= c.NY
        \/ zr.start + nb[3] - 1 < 0 \/ zr.start + nb[3] - 1 >= c.NZ

\* the comparison written nval < val
is_min_nonstrict(c, h, w, cell) ==
    \A n \in 1 .. 6 :
        LET nb == neighbors(cell[1], cell[2], cell[3])[n]
        IN  Skipped(c, w, nb) \/ ~(h[nb] < h[cell])

\* lines 252-267: is_min stays 1 unless some compared neighbour has nval <= val
is_min(c, h, w, cell) ==
    \A n \in 1 .. 6 :
        LET nb == neighbors(cell[1], cell[2], cell[3])[n]
        IN  Skipped(c, w, nb) \/ ~(h[nb] <= h[cell])

\* every one of the 6 halo cells compared, none skipped
is_max_all_compared(c, h, w, cell) ==
    \A n \in 1 .. 6 :
        LET nb == neighbors(cell[1], cell[2], cell[3])[n]
        IN  ~(h[nb] >= h[cell])

\* is_max stays 1 unless some compared neighbour has nval >= val
is_max(c, h, w, cell) ==
    \A n \in 1 .. 6 :
        LET nb == neighbors(cell[1], cell[2], cell[3])[n]
        IN  Skipped(c, w, nb) \/ ~(h[nb] >= h[cell])

cnt_min(c, h, w) == Cardinality({cell \in Interior(c, w) : is_min(c, h, w, cell)})
cnt_max(c, h, w) == Cardinality({cell \in Interior(c, w) : is_max(c, h, w, cell)})

\* lines 199, 271-272: running extremes starting from FLT_MAX and -FLT_MAX
lmin(c, h, w) == SetMin({FLT_MAX} \cup {h[cell] : cell \in Interior(c, w)})
lmax(c, h, w) == SetMax({0 - FLT_MAX} \cup {h[cell] : cell \in Interior(c, w)})

RECURSIVE SumOver(_, _, _)
SumOver(f, n, t) == IF n < 0 THEN 0 ELSE f[n][t] + SumOver(f, n - 1, t)

OthersS == UNCHANGED <<varsR, varsV, varsQ, varsP>>

\* the process-grid check made by rank 0 alone
GridCheckRootOnly(w) ==
    /\ pc[w] = "start"
    /\ pc' = [pc EXCEPT ![w] = IF w = 0 /\ cfg.PX * cfg.PY * cfg.PZ # cfg.size THEN "exit1"
                               ELSE IF w = 0 THEN "dist" ELSE "recv"]
    /\ UNCHANGED <<posted, cfg, global_data, main_time, dist_p, local_data, tstep, halo, lext,
                   local_mins, local_maxs, global_min, global_max, chan,
                   ar_min, ar_max, red_mins, red_maxs, total_mins, total_maxs, out>>
    /\ OthersS

\* lines 48-52: the process-grid check
GridCheck(w) ==
    /\ pc[w] = "start"
    /\ pc' = [pc EXCEPT ![w] = IF cfg.PX * cfg.PY * cfg.PZ # cfg.size THEN "exit1"
                               ELSE IF w = 0 THEN "dist" ELSE "recv"]
    /\ UNCHANGED <<posted, cfg, global_data, main_time, dist_p, local_data, tstep, halo, lext,
                   local_mins, local_maxs, global_min, global_max, chan,
                   ar_min, ar_max, red_mins, red_maxs, total_mins, total_maxs, out>>
    /\ OthersS

\* lines 99-130: one iteration of rank 0's loop over p
Distribute ==
    /\ pc[0] = "dist"
    /\ dist_p < cfg.size
    /\ LET p == dist_p
           buffer == PackBuffer(cfg, global_data, p)
           psize == local_points(cfg, p)
       IN  IF p = 0
           THEN /\ local_data' = [local_data EXCEPT ![0] = Unpack(cfg, buffer, psize)]
                /\ UNCHANGED <<chan, posted>>
           ELSE /\ chan' = [chan EXCEPT ![<<0, p>>] = Append(@, buffer)]
                /\ posted' = [posted EXCEPT ![<<0, p>>] =
                                 Append(@, [call |-> "MPI_Send", t |-> 0])]
                /\ UNCHANGED local_data
    /\ dist_p' = dist_p + 1
    /\ pc' = [pc EXCEPT ![0] = IF dist_p + 1 < cfg.size THEN "dist" ELSE "fill"]
    /\ UNCHANGED <<cfg, global_data, main_time, tstep, halo, lext,
                   local_mins, local_maxs, global_min, global_max,
                   ar_min, ar_max, red_mins, red_maxs, total_mins, total_maxs, out>>
    /\ OthersS

\* lines 135-140: MPI_Recv of local_points * NC floats from rank 0
Receive(w) ==
    /\ pc[w] = "recv"
    /\ chan[<<0, w>>] # <<>>
    /\ LET buffer == Head(chan[<<0, w>>])
       IN  local_data' = [local_data EXCEPT ![w] = Unpack(cfg, buffer, local_points(cfg, w))]
    /\ chan' = [chan EXCEPT ![<<0, w>>] = Tail(@)]
    /\ pc' = [pc EXCEPT ![w] = "fill"]
    /\ UNCHANGED <<posted, cfg, global_data, main_time, dist_p, tstep, halo, lext,
                   local_mins, local_maxs, global_min, global_max,
                   ar_min, ar_max, red_mins, red_maxs, total_mins, total_maxs, out>>
    /\ OthersS

\* lines 150-184: sub_data, the halo array and its interior, the neighbour ranks
FillHalo(w) ==
    /\ pc[w] = "fill"
    /\ halo' = [halo EXCEPT ![w] = FilledHalo(cfg, local_data[w], w, tstep[w])]
    /\ pc' = [pc EXCEPT ![w] = "sr_left"]
    /\ UNCHANGED <<posted, cfg, global_data, main_time, dist_p, local_data, tstep, lext,
                   local_mins, local_maxs, global_min, global_max, chan,
                   ar_min, ar_max, red_mins, red_maxs, total_mins, total_maxs, out>>
    /\ OthersS

\* lines 187-190: the send half of MPI_Sendrecv with the left neighbour
SendrecvLeft(w) ==
    /\ pc[w] = "sr_left"
    /\ LET left == MPI_Cart_shift(cfg, w, 1)[1]
       IN  IF left # MPI_PROC_NULL
           THEN /\ \E g \in ReadOutcomes(cfg, w) :
                      chan' = [chan EXCEPT ![<<w, left>>] =
                                  Append(@, SendBuf(cfg, halo[w], w, 1, g))]
                /\ posted' = [posted EXCEPT ![<<w, left>>] =
                                 Append(@, [call |-> "left", t |-> tstep[w]])]
                /\ pc' = [pc EXCEPT ![w] = "sr_left_wait"]
           ELSE /\ pc' = [pc EXCEPT ![w] = "sr_right"]
                /\ UNCHANGED <<chan, posted>>
    /\ UNCHANGED <<cfg, global_data, main_time, dist_p, local_data, tstep, halo, lext,
                   local_mins, local_maxs, global_min, global_max,
                   ar_min, ar_max, red_mins, red_maxs, total_mins, total_maxs, out>>
    /\ OthersS

\* the receive half: the left neighbour's message is stored from &halo[0][1][1]
SendrecvLeftDone(w) ==
    /\ pc[w] = "sr_left_wait"
    /\ LET left == MPI_Cart_shift(cfg, w, 1)[1]
       IN  /\ chan[<<left, w>>] # <<>>
           /\ \E target \in WriteOutcomes(cfg, w) :
                 halo' = [halo EXCEPT ![w] =
                             RecvBuf(cfg, @, w, 0, Head(chan[<<left, w>>]), target)]
           /\ chan' = [chan EXCEPT ![<<left, w>>] = Tail(@)]
    /\ pc' = [pc EXCEPT ![w] = "sr_right"]
    /\ UNCHANGED <<posted, cfg, global_data, main_time, dist_p, local_data, tstep, lext,
                   local_mins, local_maxs, global_min, global_max,
                   ar_min, ar_max, red_mins, red_maxs, total_mins, total_maxs, out>>
    /\ OthersS

\* lines 191-194: the send half of MPI_Sendrecv with the right neighbour
SendrecvRight(w) ==
    /\ pc[w] = "sr_right"
    /\ LET right == MPI_Cart_shift(cfg, w, 1)[2]
       IN  IF right # MPI_PROC_NULL
           THEN /\ \E g \in ReadOutcomes(cfg, w) :
                      chan' = [chan EXCEPT ![<<w, right>>] =
                                  Append(@, SendBuf(cfg, halo[w], w, x_local(cfg, w), g))]
                /\ posted' = [posted EXCEPT ![<<w, right>>] =
                                 Append(@, [call |-> "right", t |-> tstep[w]])]
                /\ pc' = [pc EXCEPT ![w] = "sr_right_wait"]
           ELSE /\ pc' = [pc EXCEPT ![w] = "classify"]
                /\ UNCHANGED <<chan, posted>>
    /\ UNCHANGED <<cfg, global_data, main_time, dist_p, local_data, tstep, halo, lext,
                   local_mins, local_maxs, global_min, global_max,
                   ar_min, ar_max, red_mins, red_maxs, total_mins, total_maxs, out>>
    /\ OthersS

\* the receive half reading the message and leaving it queued
SendrecvRightDoneKeep(w) ==
    /\ pc[w] = "sr_right_wait"
    /\ LET right == MPI_Cart_shift(cfg, w, 1)[2]
       IN  /\ chan[<<right, w>>] # <<>>
           /\ \E target \in WriteOutcomes(cfg, w) :
                 halo' = [halo EXCEPT ![w] =
                             RecvBuf(cfg, @, w, x_local(cfg, w) + 1,
                                     Head(chan[<<right, w>>]), target)]
           /\ UNCHANGED chan
    /\ pc' = [pc EXCEPT ![w] = "classify"]
    /\ UNCHANGED <<posted, cfg, global_data, main_time, dist_p, local_data, tstep, lext,
                   local_mins, local_maxs, global_min, global_max,
                   ar_min, ar_max, red_mins, red_maxs, total_mins, total_maxs, out>>
    /\ OthersS

\* the receive half: stored from &halo[x_local + 1][1][1]
SendrecvRightDone(w) ==
    /\ pc[w] = "sr_right_wait"
    /\ LET right == MPI_Cart_shift(cfg, w, 1)[2]
       IN  /\ chan[<<right, w>>] # <<>>
           /\ \E target \in WriteOutcomes(cfg, w) :
                 halo' = [halo EXCEPT ![w] =
                             RecvBuf(cfg, @, w, x_local(cfg, w) + 1,
                                     Head(chan[<<right, w>>]), target)]
           /\ chan' = [chan EXCEPT ![<<right, w>>] = Tail(@)]
    /\ pc' = [pc EXCEPT ![w] = "classify"]
    /\ UNCHANGED <<posted, cfg, global_data, main_time, dist_p, local_data, tstep, lext,
                   local_mins, local_maxs, global_min, global_max,
                   ar_min, ar_max, red_mins, red_maxs, total_mins, total_maxs, out>>
    /\ OthersS

\* lines 198-282: the classification loop of one timestep
Classify(w) ==
    /\ pc[w] = "classify"
    /\ local_mins' = [local_mins EXCEPT ![w][tstep[w]] = cnt_min(cfg, halo[w], w)]
    /\ local_maxs' = [local_maxs EXCEPT ![w][tstep[w]] = cnt_max(cfg, halo[w], w)]
    /\ lext' = [lext EXCEPT ![w] = <<lmin(cfg, halo[w], w), lmax(cfg, halo[w], w)>>]
    /\ pc' = [pc EXCEPT ![w] = "ar_min"]
    /\ UNCHANGED <<posted, cfg, global_data, main_time, dist_p, local_data, tstep, halo,
                   global_min, global_max, chan,
                   ar_min, ar_max, red_mins, red_maxs, total_mins, total_maxs, out>>
    /\ OthersS

\* line 284: MPI_Allreduce(&lmin, &global_min[t], MPI_MIN): the contribution
AllreduceMin(w) ==
    /\ pc[w] = "ar_min"
    /\ ar_min' = [ar_min EXCEPT ![tstep[w]] = (w :> lext[w][1]) @@ @]
    /\ pc' = [pc EXCEPT ![w] = "ar_min_wait"]
    /\ UNCHANGED <<posted, cfg, global_data, main_time, dist_p, local_data, tstep, halo, lext,
                   local_mins, local_maxs, global_min, global_max, chan,
                   ar_max, red_mins, red_maxs, total_mins, total_maxs, out>>
    /\ OthersS

\* line 284: the result, once every rank has contributed
AllreduceMinDone(w) ==
    /\ pc[w] = "ar_min_wait"
    /\ DOMAIN ar_min[tstep[w]] = Ranks
    /\ global_min' = [global_min EXCEPT ![w] =
           (tstep[w] :> SetMin({ar_min[tstep[w]][r] : r \in Ranks})) @@ @]
    /\ pc' = [pc EXCEPT ![w] = "ar_max"]
    /\ UNCHANGED <<posted, cfg, global_data, main_time, dist_p, local_data, tstep, halo, lext,
                   local_mins, local_maxs, global_max, chan,
                   ar_min, ar_max, red_mins, red_maxs, total_mins, total_maxs, out>>
    /\ OthersS

\* line 285: MPI_Allreduce(&lmax, &global_max[t], MPI_MAX): the contribution
AllreduceMax(w) ==
    /\ pc[w] = "ar_max"
    /\ ar_max' = [ar_max EXCEPT ![tstep[w]] = (w :> lext[w][2]) @@ @]
    /\ pc' = [pc EXCEPT ![w] = "ar_max_wait"]
    /\ UNCHANGED <<posted, cfg, global_data, main_time, dist_p, local_data, tstep, halo, lext,
                   local_mins, local_maxs, global_min, global_max, chan,
                   ar_min, red_mins, red_maxs, total_mins, total_maxs, out>>
    /\ OthersS

\* lines 285-295 and 150: the result, the frees and the loop's t++
AllreduceMaxDone(w) ==
    /\ pc[w] = "ar_max_wait"
    /\ DOMAIN ar_max[tstep[w]] = Ranks
    /\ global_max' = [global_max EXCEPT ![w] =
           (tstep[w] :> SetMax({ar_max[tstep[w]][r] : r \in Ranks})) @@ @]
    /\ \E o \in FreeOutcomes(cfg, w) :
          IF o = "aborted"
          THEN /\ pc' = [pc EXCEPT ![w] = "aborted"]
               /\ UNCHANGED tstep
          ELSE /\ tstep' = [tstep EXCEPT ![w] = @ + 1]
               /\ pc' = [pc EXCEPT ![w] =
                      IF tstep[w] + 1 < cfg.NC THEN "fill" ELSE "red_mins"]
    /\ UNCHANGED <<posted, cfg, global_data, main_time, dist_p, local_data, halo, lext,
                   local_mins, local_maxs, global_min, chan,
                   ar_min, ar_max, red_mins, red_maxs, total_mins, total_maxs, out>>
    /\ OthersS

\* lines 297-298: t_end - t_start, as a rank may measure it: the shortest or
\* the longest time
Intervals == {1, MaxInterval}

\* lines 297-306: main_time, then MPI_Reduce(local_mins, total_mins, MPI_SUM,
\* root 0): the contribution
ReduceMins(w) ==
    /\ pc[w] = "red_mins"
    /\ \E d \in Intervals : main_time' = [main_time EXCEPT ![w] = d]
    /\ red_mins' = (w :> local_mins[w]) @@ red_mins
    /\ pc' = [pc EXCEPT ![w] = IF w = 0 THEN "red_mins_wait" ELSE "red_maxs"]
    /\ UNCHANGED <<posted, cfg, global_data, dist_p, local_data, tstep, halo, lext,
                   local_mins, local_maxs, global_min, global_max, chan,
                   ar_min, ar_max, red_maxs, total_mins, total_maxs, out>>
    /\ OthersS

\* line 306 at the root, returning the root's own counts without waiting
ReduceMinsRootOwn ==
    /\ pc[0] = "red_mins_wait"
    /\ total_mins' = [t \in Steps |-> red_mins[0][t]]
    /\ pc' = [pc EXCEPT ![0] = "red_maxs"]
    /\ UNCHANGED <<posted, cfg, global_data, main_time, dist_p, local_data, tstep, halo, lext,
                   local_mins, local_maxs, global_min, global_max, chan,
                   ar_min, ar_max, red_mins, red_maxs, total_maxs, out>>
    /\ OthersS

\* line 306 at the root: the sums, once every rank has contributed
ReduceMinsRoot ==
    /\ pc[0] = "red_mins_wait"
    /\ DOMAIN red_mins = Ranks
    /\ total_mins' = [t \in Steps |-> SumOver(red_mins, cfg.size - 1, t)]
    /\ pc' = [pc EXCEPT ![0] = "red_maxs"]
    /\ UNCHANGED <<posted, cfg, global_data, main_time, dist_p, local_data, tstep, halo, lext,
                   local_mins, local_maxs, global_min, global_max, chan,
                   ar_min, ar_max, red_mins, red_maxs, total_maxs, out>>
    /\ OthersS

\* line 307: MPI_Reduce(local_maxs, total_maxs, MPI_SUM, root 0): the contribution
ReduceMaxs(w) ==
    /\ pc[w] = "red_maxs"
    /\ red_maxs' = (w :> local_maxs[w]) @@ red_maxs
    /\ pc' = [pc EXCEPT ![w] = IF w = 0 THEN "red_maxs_wait" ELSE "finalize"]
    /\ UNCHANGED <<posted, cfg, global_data, main_time, dist_p, local_data, tstep, halo, lext,
                   local_mins, local_maxs, global_min, global_max, chan,
                   ar_min, ar_max, red_mins, total_mins, total_maxs, out>>
    /\ OthersS

\* line 307 at the root
ReduceMaxsRoot ==
    /\ pc[0] = "red_maxs_wait"
    /\ DOMAIN red_maxs = Ranks
    /\ total_maxs' = [t \in Steps |-> SumOver(red_maxs, cfg.size - 1, t)]
    /\ pc' = [pc EXCEPT ![0] = "output"]
    /\ UNCHANGED <<posted, cfg, global_data, main_time, dist_p, local_data, tstep, halo, lext,
                   local_mins, local_maxs, global_min, global_max, chan,
                   ar_min, ar_max, red_mins, red_maxs, total_mins, out>>
    /\ OthersS

\* lines 309-331: rank 0 writes the counts and the values of every timestep,
\* then 0.0, main_time, main_time (line 326)
WriteOutput ==
    /\ pc[0] = "output"
    /\ out' = [counts |-> [t \in Steps |-> <<total_mins[t], total_maxs[t]>>],
               values |-> [t \in Steps |-> <<global_min[0][t], global_max[0][t]>>],
               times |-> <<0, main_time[0], main_time[0]>>]
    /\ pc' = [pc EXCEPT ![0] = "finalize"]
    /\ UNCHANGED <<posted, cfg, global_data, main_time, dist_p, local_data, tstep, halo, lext,
                   local_mins, local_maxs, global_min, global_max, chan,
                   ar_min, ar_max, red_mins, red_maxs, total_mins, total_maxs>>
    /\ OthersS

\* lines 333-341
Finalize(w) ==
    /\ pc[w] = "finalize"
    /\ pc' = [pc EXCEPT ![w] = "done"]
    /\ UNCHANGED <<posted, cfg, global_data, main_time, dist_p, local_data, tstep, halo, lext,
                   local_mins, local_maxs, global_min, global_max, chan,
                   ar_min, ar_max, red_mins, red_maxs, total_mins, total_maxs, out>>
    /\ OthersS

\* the state of src.c after MPI_Init on input <<c, f>>
StartS(c, f) ==
    /\ cfg = c
    /\ global_data = f
    /\ pc = [w \in 0 .. c.size - 1 |-> "start"]
    /\ dist_p = 0
    /\ local_data = [w \in 0 .. c.size - 1 |-> EmptyFn]
    /\ tstep = [w \in 0 .. c.size - 1 |-> 0]
    /\ halo = [w \in 0 .. c.size - 1 |-> EmptyFn]
    /\ lext = [w \in 0 .. c.size - 1 |-> <<FLT_MAX, 0 - FLT_MAX>>]
    /\ local_mins = [w \in 0 .. c.size - 1 |-> [t \in 0 .. c.NC - 1 |-> 0]]
    /\ local_maxs = [w \in 0 .. c.size - 1 |-> [t \in 0 .. c.NC - 1 |-> 0]]
    /\ global_min = [w \in 0 .. c.size - 1 |-> EmptyFn]
    /\ global_max = [w \in 0 .. c.size - 1 |-> EmptyFn]
    /\ chan = [pr \in (0 .. c.size - 1) \X (0 .. c.size - 1) |-> <<>>]
    /\ posted = [pr \in (0 .. c.size - 1) \X (0 .. c.size - 1) |-> <<>>]
    /\ ar_min = [t \in 0 .. c.NC - 1 |-> EmptyFn]
    /\ ar_max = [t \in 0 .. c.NC - 1 |-> EmptyFn]
    /\ red_mins = EmptyFn
    /\ red_maxs = EmptyFn
    /\ total_mins = EmptyFn
    /\ total_maxs = EmptyFn
    /\ main_time = [w \in 0 .. c.size - 1 |-> 0]
    /\ out = EmptyFn

\* ============================================================ Venkatesh/1.c
\* line 9
idx3d(x, y, z, nx, ny) == ((z * ny + y) * nx) + x

\* lines 134-154: the block a rank computes for itself
v_block(c, rank) ==
    LET px_id == rank % c.PX
        py_id == (rank \div c.PX) % c.PY
        pz_id == rank \div (c.PX * c.PY)
        start_x == px_id * (c.NX \div c.PX)
        start_y == py_id * (c.NY \div c.PY)
        start_z == pz_id * (c.NZ \div c.PZ)
        end_x == IF px_id + 1 = c.PX THEN c.NX ELSE start_x + (c.NX \div c.PX)
        end_y == IF py_id + 1 = c.PY THEN c.NY ELSE start_y + (c.NY \div c.PY)
        end_z == IF pz_id + 1 = c.PZ THEN c.NZ ELSE start_z + (c.NZ \div c.PZ)
    IN  [sx |-> start_x, sy |-> start_y, sz |-> start_z,
         nx |-> end_x - start_x, ny |-> end_y - start_y, nz |-> end_z - start_z]

\* lines 201-213 with the block ends open and no remainder given to the last
\* worker of an axis
v_rblock_even(c, r) ==
    LET r_px == r % c.PX
        r_py == (r \div c.PX) % c.PY
        r_pz == r \div (c.PX * c.PY)
    IN  [sx |-> r_px * (c.NX \div c.PX), sy |-> r_py * (c.NY \div c.PY),
         sz |-> r_pz * (c.NZ \div c.PZ),
         nx |-> c.NX \div c.PX, ny |-> c.NY \div c.PY, nz |-> c.NZ \div c.PZ]

\* lines 201-215: the block rank 0 computes for the rank r it packs for
v_rblock(c, r) ==
    LET r_px == r % c.PX
        r_py == (r \div c.PX) % c.PY
        r_pz == r \div (c.PX * c.PY)
        r_sx == r_px * (c.NX \div c.PX)
        r_sy == r_py * (c.NY \div c.PY)
        r_sz == r_pz * (c.NZ \div c.PZ)
        r_ex == IF r_px + 1 = c.PX THEN c.NX ELSE r_sx + (c.NX \div c.PX)
        r_ey == IF r_py + 1 = c.PY THEN c.NY ELSE r_sy + (c.NY \div c.PY)
        r_ez == IF r_pz + 1 = c.PZ THEN c.NZ ELSE r_sz + (c.NZ \div c.PZ)
    IN  [sx |-> r_sx, sy |-> r_sy, sz |-> r_sz,
         nx |-> r_ex - r_sx, ny |-> r_ey - r_sy, nz |-> r_ez - r_sz]

\* lines 157-160
v_ghost_size(c, rank) ==
    (v_block(c, rank).nx + 2) * (v_block(c, rank).ny + 2) * (v_block(c, rank).nz + 2)

\* the local point (x, y, z) of a block that the flat position pt stands for,
\* in the order for z, for y, for x
BlockPoint(pt, nx, ny) == <<pt % nx, (pt \div nx) % ny, pt \div (nx * ny)>>

\* lines 162-171 and the copy loops of lines 186-197 and 246-257: every cell
\* DBL_MAX, then the owned cells from src, a flat array of nx*ny*nz*nt values
v_filled(c, rank, src) ==
    LET b == v_block(c, rank)
    IN  [i \in 0 .. v_ghost_size(c, rank) * c.NC - 1 |->
            LET cell == i \div c.NC
                g == BlockPoint(cell, b.nx + 2, b.ny + 2)
            IN  IF /\ g[1] >= 1 /\ g[1] <= b.nx
                   /\ g[2] >= 1 /\ g[2] <= b.ny
                   /\ g[3] >= 1 /\ g[3] <= b.nz
                THEN src[(idx3d(g[1] - 1, g[2] - 1, g[3] - 1, b.nx, b.ny) * c.NC) + (i % c.NC)]
                ELSE DBL_MAX]

\* rank 0's own block read straight from full_data (lines 186-197)
v_own_src(c, f) ==
    LET b == v_block(c, 0)
    IN  [i \in 0 .. (b.nx * b.ny * b.nz * c.NC) - 1 |->
            LET pt == BlockPoint(i \div c.NC, b.nx, b.ny)
            IN  f[idx3d(b.sx + pt[1], b.sy + pt[2], b.sz + pt[3], c.NX, c.NY)][i % c.NC]]

\* lines 219-229: the buffer of one pass of the innermost loop: freshly
\* allocated, the nt values of the point at position it stored, the rest
\* never written (g)
v_send_buf(c, f, r, it, g) ==
    LET b == v_rblock(c, r)
        pt == BlockPoint(it, b.nx, b.ny)
        src_idx == idx3d(b.sx + pt[1], b.sy + pt[2], b.sz + pt[3], c.NX, c.NY)
        buf_idx == ((pt[3] * b.ny + pt[2]) * b.nx) + pt[1]
    IN  [i \in 0 .. (b.nx * b.ny * b.nz * c.NC) - 1 |->
            IF i \div c.NC = buf_idx THEN f[src_idx][i % c.NC] ELSE g]

\* line 240
recv_size(c, rank) ==
    v_block(c, rank).nx * v_block(c, rank).ny * v_block(c, rank).nz * c.NC

v_Ranks == 0 .. v_cfg.size - 1

OthersV == UNCHANGED <<varsS, varsR, varsQ, varsP>>

\* lines 88-96: the process-grid check
VGridCheck(w) ==
    /\ v_pc[w] = "start"
    /\ v_pc' = [v_pc EXCEPT ![w] =
                   IF v_cfg.PX * v_cfg.PY * v_cfg.PZ # v_cfg.size THEN "exit1"
                   ELSE IF w = 0 THEN "own" ELSE "recv"]
    /\ UNCHANGED <<v_cfg, v_sync, v_full, v_r, v_it, v_chan, v_local, v_sent, v_part, v_out>>
    /\ OthersV

\* lines 162-197: rank 0 fills its own ghost-extended block
VKeepOwn ==
    /\ v_pc[0] = "own"
    /\ v_local' = [v_local EXCEPT ![0] = v_filled(v_cfg, 0, v_own_src(v_cfg, v_full))]
    /\ v_r' = 1
    /\ v_it' = 0
    /\ v_pc' = [v_pc EXCEPT ![0] = IF 1 < v_cfg.size THEN "send" ELSE "compute"]
    /\ UNCHANGED <<v_cfg, v_sync, v_full, v_chan, v_sent, v_part, v_out>>
    /\ OthersV

\* lines 219-229: one pass of the innermost loop: the buffer and its MPI_Send
VSend ==
    /\ v_pc[0] = "send"
    /\ \E g \in Garbage :
          v_chan' = [v_chan EXCEPT ![v_r] =
                        Append(@, v_send_buf(v_cfg, v_full, v_r, v_it, g))]
    /\ v_sent' = [v_sent EXCEPT ![v_r] = @ + 1]
    /\ v_pc' = [v_pc EXCEPT ![0] = "send_wait"]
    /\ UNCHANGED <<v_cfg, v_sync, v_full, v_r, v_it, v_local, v_part, v_out>>
    /\ OthersV

\* lines 229-234: MPI_Send returns, the loops advance to the next point or rank
VSendReturn ==
    /\ v_pc[0] = "send_wait"
    /\ v_sync => v_chan[v_r] = <<>>
    /\ LET b == v_rblock(v_cfg, v_r)
           last == v_it + 1 >= b.nx * b.ny * b.nz
       IN  /\ v_it' = IF last THEN 0 ELSE v_it + 1
           /\ v_r' = IF last THEN v_r + 1 ELSE v_r
           /\ v_pc' = [v_pc EXCEPT ![0] =
                          IF last /\ v_r + 1 >= v_cfg.size THEN "compute" ELSE "send"]
    /\ UNCHANGED <<v_cfg, v_sync, v_full, v_chan, v_local, v_sent, v_part, v_out>>
    /\ OthersV

\* lines 240-259: the single MPI_Recv of a worker and the copy into local_data
VRecv(w) ==
    /\ v_pc[w] = "recv"
    /\ v_chan[w] # <<>>
    /\ v_local' = [v_local EXCEPT ![w] = v_filled(v_cfg, w, Head(v_chan[w]))]
    /\ v_chan' = [v_chan EXCEPT ![w] = Tail(@)]
    /\ v_pc' = [v_pc EXCEPT ![w] = "compute"]
    /\ UNCHANGED <<v_cfg, v_sync, v_full, v_r, v_it, v_sent, v_part, v_out>>
    /\ OthersV

\* line 19
nbrs == <<<<-1, 0, 0>>, <<1, 0, 0>>, <<0, -1, 0>>, <<0, 1, 0>>, <<0, 0, -1>>, <<0, 0, 1>>>>

\* lines 14-36.  The loop body declares int nx, ny, nz for the neighbour's
\* coordinates; inside the body these hide the parameters nx, ny, nz (the
\* array extents), so the boundary test and idx3d read the body's own
\* variables: n_x, n_y, n_z below stand for them in every place the body
\* writes nx, ny, nz.
v_is_min(data, x, y, z, nx, ny, nz, t, nt) ==
    LET center == idx3d(x, y, z, nx, ny)
        val == data[(center * nt) + t]
    IN  \A i \in 1 .. 6 :
            LET n_x == x + nbrs[i][1]
                n_y == y + nbrs[i][2]
                n_z == z + nbrs[i][3]
            IN  \/ (n_x < 0 \/ n_x >= n_x \/ n_y < 0 \/ n_y >= n_y \/ n_z < 0 \/ n_z >= n_z)
                \/ ~(data[(idx3d(n_x, n_y, n_z, n_x, n_y) * nt) + t] < val)

\* lines 39-61, with the same declarations in the loop body
v_is_max(data, x, y, z, nx, ny, nz, t, nt) ==
    LET center == idx3d(x, y, z, nx, ny)
        val == data[(center * nt) + t]
    IN  \A i \in 1 .. 6 :
            LET n_x == x + nbrs[i][1]
                n_y == y + nbrs[i][2]
                n_z == z + nbrs[i][3]
            IN  \/ (n_x < 0 \/ n_x >= n_x \/ n_y < 0 \/ n_y >= n_y \/ n_z < 0 \/ n_z >= n_z)
                \/ ~(data[(idx3d(n_x, n_y, n_z, n_x, n_y) * nt) + t] > val)

\* the owned points of a rank, as ghost coordinates (lines 286-288)
v_owned(c, rank) ==
    (1 .. v_block(c, rank).nx) \X (1 .. v_block(c, rank).ny) \X (1 .. v_block(c, rank).nz)

\* lines 269-306: the counts and extreme values of a rank's block
v_compute(c, ld, rank) ==
    LET b == v_block(c, rank)
        val(g, t) == ld[(idx3d(g[1], g[2], g[3], b.nx + 2, b.ny + 2) * c.NC) + t]
    IN  [min_counts |-> [t \in 0 .. c.NC - 1 |->
            Cardinality({g \in v_owned(c, rank) :
                v_is_min(ld, g[1], g[2], g[3], b.nx + 2, b.ny + 2, b.nz + 2, t, c.NC)})],
         max_counts |-> [t \in 0 .. c.NC - 1 |->
            Cardinality({g \in v_owned(c, rank) :
                v_is_max(ld, g[1], g[2], g[3], b.nx + 2, b.ny + 2, b.nz + 2, t, c.NC)})],
         min_values |-> [t \in 0 .. c.NC - 1 |->
            SetMin({DBL_MAX} \cup {val(g, t) : g \in v_owned(c, rank)})],
         max_values |-> [t \in 0 .. c.NC - 1 |->
            SetMax({0 - DBL_MAX} \cup {val(g, t) : g \in v_owned(c, rank)})]]

\* lines 269-306: the computation over the rank's block
VCompute(w) ==
    /\ v_pc[w] = "compute"
    /\ v_part' = [v_part EXCEPT ![w] = v_compute(v_cfg, v_local[w], w)]
    /\ v_pc' = [v_pc EXCEPT ![w] = "reduce"]
    /\ UNCHANGED <<v_cfg, v_sync, v_full, v_r, v_it, v_chan, v_local, v_sent, v_out>>
    /\ OthersV

\* lines 319-338, ranks other than 0: the rank hands its arrays to the
\* MPI_Reduce calls and goes on to MPI_Finalize
VReduce(w) ==
    /\ w # 0
    /\ v_pc[w] = "reduce"
    /\ v_pc' = [v_pc EXCEPT ![w] = "done"]
    /\ UNCHANGED <<v_cfg, v_sync, v_full, v_r, v_it, v_chan, v_local, v_sent, v_part, v_out>>
    /\ OthersV

\* lines 319-370, rank 0: the MPI_Reduce calls complete once every rank has
\* entered them; the sums, minima and maxima are written
VReduceRoot ==
    /\ v_pc[0] = "reduce"
    /\ \A w \in v_Ranks : v_pc[w] \in {"reduce", "done"}
    /\ v_out' = [counts |-> [t \in 0 .. v_cfg.NC - 1 |->
                    <<SumOver([w \in v_Ranks |-> v_part[w].min_counts], v_cfg.size - 1, t),
                      SumOver([w \in v_Ranks |-> v_part[w].max_counts], v_cfg.size - 1, t)>>],
                 values |-> [t \in 0 .. v_cfg.NC - 1 |->
                    <<SetMin({v_part[w].min_values[t] : w \in v_Ranks}),
                      SetMax({v_part[w].max_values[t] : w \in v_Ranks})>>]]
    /\ v_pc' = [v_pc EXCEPT ![0] = "done"]
    /\ UNCHANGED <<v_cfg, v_sync, v_full, v_r, v_it, v_chan, v_local, v_sent, v_part>>
    /\ OthersV

StartV(c, f, sync) ==
    /\ v_cfg = c
    /\ v_sync = sync
    /\ v_full = f
    /\ v_pc = [w \in 0 .. c.size - 1 |-> "start"]
    /\ v_r = 0
    /\ v_it = 0
    /\ v_chan = [w \in 0 .. c.size - 1 |-> <<>>]
    /\ v_local = [w \in 0 .. c.size - 1 |-> EmptyFn]
    /\ v_sent = [w \in 0 .. c.size - 1 |-> 0]
    /\ v_part = [w \in 0 .. c.size - 1 |-> EmptyFn]
    /\ v_out = EmptyFn

\* ===================================================== Pankaj/pankaj_code2.c
\* lines 17-19
threeD_To_oneD(x, y, z, width, height, depth) == ((z * height + y) * width) + x

\* lines 21-58: data is indexed by the point alone, the timestep is no argument
checkLocalMinima(data, x, y, z, width, height, depth) ==
    LET idx == threeD_To_oneD(x, y, z, width, height, depth)
        val == data[idx]
    IN  /\ ~(x > 0 /\ data[idx - 1] < val)
        /\ ~(x < width - 1 /\ data[idx + 1] < val)
        /\ ~(y > 0 /\ data[idx - width] < val)
        /\ ~(y < height - 1 /\ data[idx + width] < val)
        /\ ~(z > 0 /\ data[idx - (height * width)] < val)
        /\ ~(z < depth - 1 /\ data[idx + (height * width)] < val)

\* lines 60-96
checkLocalMaxima(data, x, y, z, width, height, depth) ==
    LET idx == threeD_To_oneD(x, y, z, width, height, depth)
        val == data[idx]
    IN  /\ ~(x > 0 /\ data[idx - 1] > val)
        /\ ~(x < width - 1 /\ data[idx + 1] > val)
        /\ ~(y > 0 /\ data[idx - width] > val)
        /\ ~(y < height - 1 /\ data[idx + width] > val)
        /\ ~(z > 0 /\ data[idx - (height * width)] > val)
        /\ ~(z < depth - 1 /\ data[idx + (height * width)] > val)

\* lines 154-182 for the rank itself, lines 201-222 for the rank p the
\* coordinator packs for: owned range, range widened by one clamped layer
q_block(c, rank) ==
    LET subDomainZ == rank \div (c.PX * c.PY)
        subDomainY == (rank % (c.PX * c.PY)) \div c.PX
        subDomainX == rank % c.PX
        subDomainSizeX == c.NX \div c.PX
        subDomainSizeY == c.NY \div c.PY
        subDomainSizeZ == c.NZ \div c.PZ
        startX == subDomainX * subDomainSizeX
        startY == subDomainY * subDomainSizeY
        startZ == subDomainZ * subDomainSizeZ
        endX == IF subDomainX = c.PX - 1 THEN c.NX - 1 ELSE startX + subDomainSizeX - 1
        endY == IF subDomainY = c.PY - 1 THEN c.NY - 1 ELSE startY + subDomainSizeY - 1
        endZ == IF subDomainZ = c.PZ - 1 THEN c.NZ - 1 ELSE startZ + subDomainSizeZ - 1
        tempStartX == IF startX - 1 >= 0 THEN startX - 1 ELSE startX
        tempStartY == IF startY - 1 >= 0 THEN startY - 1 ELSE startY
        tempStartZ == IF startZ - 1 >= 0 THEN startZ - 1 ELSE startZ
        tempEndX == IF endX + 1 <= c.NX - 1 THEN endX + 1 ELSE endX
        tempEndY == IF endY + 1 <= c.NY - 1 THEN endY + 1 ELSE endY
        tempEndZ == IF endZ + 1 <= c.NZ - 1 THEN endZ + 1 ELSE endZ
    IN  [startX |-> startX, startY |-> startY, startZ |-> startZ,
         endX |-> endX, endY |-> endY, endZ |-> endZ,
         tempStartX |-> tempStartX, tempStartY |-> tempStartY, tempStartZ |-> tempStartZ,
         tempEndX |-> tempEndX, tempEndY |-> tempEndY, tempEndZ |-> tempEndZ,
         subDomainSizeX |-> subDomainSizeX, subDomainSizeY |-> subDomainSizeY,
         subDomainSizeZ |-> subDomainSizeZ,
         width |-> tempEndX + 1 - tempStartX,
         height |-> tempEndY + 1 - tempStartY,
         depth |-> tempEndZ + 1 - tempStartZ]

\* line 182, and line 222 for the rank being sent to
localDataSize(c, rank) ==
    q_block(c, rank).width * q_block(c, rank).height * q_block(c, rank).depth * c.NC

\* lines 187-197: the coordinator's own widened block, for z, for y, for x, for t
q_own(c, f) ==
    LET b == q_block(c, 0)
    IN  [i \in 0 .. localDataSize(c, 0) - 1 |->
            LET pt == BlockPoint(i \div c.NC, b.width, b.height)
            IN  f[threeD_To_oneD(b.tempStartX + pt[1], b.tempStartY + pt[2],
                                 b.tempStartZ + pt[3], c.NX, c.NY, c.NZ)][i % c.NC]]

\* lines 223-239: tempBuffer has sendDataSize slots; the loops store the
\* subDomainSize block that starts at pStart, the slots after it keep what
\* the allocation held (g)
tempBuffer(c, f, p, g) ==
    LET b == q_block(c, p)
        packed == b.subDomainSizeX * b.subDomainSizeY * b.subDomainSizeZ * c.NC
    IN  [i \in 0 .. localDataSize(c, p) - 1 |->
            IF i < packed
            THEN LET pt == BlockPoint(i \div c.NC, b.subDomainSizeX, b.subDomainSizeY)
                 IN  f[threeD_To_oneD(b.startX + pt[1], b.startY + pt[2],
                                      b.startZ + pt[3], c.NX, c.NY, c.NZ)][i % c.NC]
            ELSE g]

\* the loops of lines 268-270 without the test of line 271: every point of the
\* widened block
q_owned_all(c, rank) ==
    LET b == q_block(c, rank)
    IN  (0 .. b.width - 1) \X (0 .. b.height - 1) \X (0 .. b.depth - 1)

\* line 271: the points of the widened block the rank owns
q_owned(c, rank) ==
    LET b == q_block(c, rank)
    IN  { pt \in (0 .. b.width - 1) \X (0 .. b.height - 1) \X (0 .. b.depth - 1) :
            /\ pt[1] >= b.startX - b.tempStartX /\ pt[1] <= b.endX - b.tempStartX
            /\ pt[2] >= b.startY - b.tempStartY /\ pt[2] <= b.endY - b.tempStartY
            /\ pt[3] >= b.startZ - b.tempStartZ /\ pt[3] <= b.endZ - b.tempStartZ }

\* lines 255-289: the whole compute loop; the body does not use t
q_compute(c, rank, data) ==
    LET b == q_block(c, rank)
        vals == { data[threeD_To_oneD(pt[1], pt[2], pt[3], b.width, b.height, b.depth)] :
                    pt \in q_owned(c, rank) }
        mins == { pt \in q_owned(c, rank) :
                    checkLocalMinima(data, pt[1], pt[2], pt[3], b.width, b.height, b.depth) }
        maxs == { pt \in q_owned(c, rank) :
                    checkLocalMaxima(data, pt[1], pt[2], pt[3], b.width, b.height, b.depth) }
    IN  [localMinimaCount |-> [t \in 0 .. c.NC - 1 |-> Cardinality(mins)],
         localMaximaCount |-> [t \in 0 .. c.NC - 1 |-> Cardinality(maxs)],
         subDomainMinValues |-> [t \in 0 .. c.NC - 1 |-> SetMin(vals \cup {DBL_MAX})],
         subDomainMaxValues |-> [t \in 0 .. c.NC - 1 |-> SetMax(vals \cup {0 - DBL_MAX})]]

q_Ranks == 0 .. q_cfg.size - 1

\* number of MPI_Reduce calls of lines 303-318
NumReduces == 5

\* lines 303-307: what the k-th MPI_Reduce leaves at the root
q_reduced(k) ==
    [t \in 0 .. q_cfg.NC - 1 |->
        CASE k = 0 -> SumOver([w \in q_Ranks |-> q_part[w].localMinimaCount], q_cfg.size - 1, t)
          [] k = 1 -> SumOver([w \in q_Ranks |-> q_part[w].localMaximaCount], q_cfg.size - 1, t)
          [] k = 2 -> SetMin({q_part[w].subDomainMinValues[t] : w \in q_Ranks})
          [] k = 3 -> SetMax({q_part[w].subDomainMaxValues[t] : w \in q_Ranks})]

OthersQ == UNCHANGED <<varsS, varsR, varsV, varsP>>

\* lines 120-126
QGridCheck(w) ==
    /\ q_pc[w] = "start"
    /\ q_pc' = [q_pc EXCEPT ![w] =
                   IF q_cfg.PX * q_cfg.PY * q_cfg.PZ # q_cfg.size THEN "exit1"
                   ELSE IF w = 0 THEN "own" ELSE "recv"]
    /\ UNCHANGED <<q_cfg, q_global, q_p, q_chan, q_local, q_part, q_k, q_res, q_out>>
    /\ OthersQ

\* lines 185-197
QKeepOwn ==
    /\ q_pc[0] = "own"
    /\ q_local' = [q_local EXCEPT ![0] = q_own(q_cfg, q_global)]
    /\ q_p' = 1
    /\ q_pc' = [q_pc EXCEPT ![0] = IF 1 < q_cfg.size THEN "send" ELSE "compute"]
    /\ UNCHANGED <<q_cfg, q_global, q_chan, q_part, q_k, q_res, q_out>>
    /\ OthersQ

\* lines 200-243: one pass of the send loop
QSend ==
    /\ q_pc[0] = "send"
    /\ \E g \in Garbage :
          q_chan' = [q_chan EXCEPT ![q_p] = Append(@, tempBuffer(q_cfg, q_global, q_p, g))]
    /\ q_p' = q_p + 1
    /\ q_pc' = [q_pc EXCEPT ![0] = IF q_p + 1 < q_cfg.size THEN "send" ELSE "compute"]
    /\ UNCHANGED <<q_cfg, q_global, q_local, q_part, q_k, q_res, q_out>>
    /\ OthersQ

\* line 245
QRecv(w) ==
    /\ q_pc[w] = "recv"
    /\ q_chan[w] # <<>>
    /\ q_local' = [q_local EXCEPT ![w] = Head(q_chan[w])]
    /\ q_chan' = [q_chan EXCEPT ![w] = Tail(@)]
    /\ q_pc' = [q_pc EXCEPT ![w] = "compute"]
    /\ UNCHANGED <<q_cfg, q_global, q_p, q_part, q_k, q_res, q_out>>
    /\ OthersQ

\* lines 255-289
QCompute(w) ==
    /\ q_pc[w] = "compute"
    /\ q_part' = [q_part EXCEPT ![w] = q_compute(q_cfg, w, q_local[w])]
    /\ q_pc' = [q_pc EXCEPT ![w] = "reduce"]
    /\ UNCHANGED <<q_cfg, q_global, q_p, q_chan, q_local, q_k, q_res, q_out>>
    /\ OthersQ

\* lines 303-318, a rank other than the root: it hands its operand to the
\* reduction and goes on
QReduce(w) ==
    /\ w # 0
    /\ q_pc[w] = "reduce"
    /\ q_k' = [q_k EXCEPT ![w] = @ + 1]
    /\ q_pc' = [q_pc EXCEPT ![w] = IF q_k[w] + 1 = NumReduces THEN "done" ELSE "reduce"]
    /\ UNCHANGED <<q_cfg, q_global, q_p, q_chan, q_local, q_part, q_res, q_out>>
    /\ OthersQ

\* lines 303-318, the root: the reduction returns once every rank has entered
\* it; the fifth one carries the timings only
QReduceRoot ==
    /\ q_pc[0] = "reduce"
    /\ \A w \in q_Ranks \ {0} : q_k[w] > q_k[0]
    /\ q_res' = IF q_k[0] < 4 THEN (q_k[0] :> q_reduced(q_k[0])) @@ q_res ELSE q_res
    /\ q_k' = [q_k EXCEPT ![0] = @ + 1]
    /\ q_pc' = [q_pc EXCEPT ![0] = IF q_k[0] + 1 = NumReduces THEN "output" ELSE "reduce"]
    /\ UNCHANGED <<q_cfg, q_global, q_p, q_chan, q_local, q_part, q_out>>
    /\ OthersQ

\* lines 320-352
QWriteOutput ==
    /\ q_pc[0] = "output"
    /\ q_out' = <<[t \in 0 .. q_cfg.NC - 1 |-> <<q_res[0][t], q_res[1][t]>>],
                  [t \in 0 .. q_cfg.NC - 1 |-> <<q_res[2][t], q_res[3][t]>>]>>
    /\ q_pc' = [q_pc EXCEPT ![0] = "done"]
    /\ UNCHANGED <<q_cfg, q_global, q_p, q_chan, q_local, q_part, q_k, q_res>>
    /\ OthersQ

StartQ(c, f) ==
    /\ q_cfg = c
    /\ q_global = f
    /\ q_pc = [w \in 0 .. c.size - 1 |-> "start"]
    /\ q_p = 0
    /\ q_chan = [w \in 0 .. c.size - 1 |-> <<>>]
    /\ q_local = [w \in 0 .. c.size - 1 |-> EmptyFn]
    /\ q_part = [w \in 0 .. c.size - 1 |-> EmptyFn]
    /\ q_k = [w \in 0 .. c.size - 1 |-> 0]
    /\ q_res = EmptyFn
    /\ q_out = <<>>

\* ====================================================== Pankaj/pankaj_code.c
\* lines 99-102
p_sub(c) ==
    [subDomainSizeX |-> c.NX \div c.PX,
     subDomainSizeY |-> c.NY \div c.PY,
     subDomainSizeZ |-> c.NZ \div c.PZ,
     subDomainSize |-> (c.NX \div c.PX) * (c.NY \div c.PY) * (c.NZ \div c.PZ)]

\* lines 107-114: the position and start indices a rank computes for itself
p_self(c, cur_rank) ==
    LET subDomainX == cur_rank \div (c.PX * c.PY)
        subDomainY == (cur_rank % (c.PX * c.PY)) \div c.PX
        subDomainZ == cur_rank % c.PX
    IN  [X |-> subDomainX, Y |-> subDomainY, Z |-> subDomainZ,
         startX |-> subDomainX * p_sub(c).subDomainSizeX,
         startY |-> subDomainY * p_sub(c).subDomainSizeY,
         startZ |-> subDomainZ * p_sub(c).subDomainSizeZ]

\* lines 133-139: the position and start indices rank 0 computes for rank p
p_pos(c, p) ==
    LET posZ == p \div (c.PX * c.PY)
        posY == (p % (c.PX * c.PY)) \div c.PX
        posX == p % c.PX
    IN  [X |-> posX, Y |-> posY, Z |-> posZ,
         startX |-> posX * p_sub(c).subDomainSizeX,
         startY |-> posY * p_sub(c).subDomainSizeY,
         startZ |-> posZ * p_sub(c).subDomainSizeZ]

\* lines 119-129 and 147-157: the block of subDomainSize points that starts at
\* st, for z, for y, for x, the timeSteps values of a point next to each other
p_block(c, f, st) ==
    [i \in 0 .. (p_sub(c).subDomainSize * c.NC) - 1 |->
        LET pt == BlockPoint(i \div c.NC, p_sub(c).subDomainSizeX, p_sub(c).subDomainSizeY)
            globalIdx == ((st.startZ + pt[3]) * c.NX * c.NY)
                            + ((st.startY + pt[2]) * c.NX) + (st.startX + pt[1])
        IN  f[globalIdx][i % c.NC]]

\* line 159: MPI_Send(tempBuffer, subDomainSize, ...): the first subDomainSize
\* doubles of the buffer
p_message(c, f, p) ==
    [i \in 0 .. p_sub(c).subDomainSize - 1 |-> p_block(c, f, p_pos(c, p))[i]]

\* lines 104 and 164: MPI_Recv stores the message at the front of localData,
\* the rest keeps what the allocation held (g)
p_received(c, msg, g) ==
    [i \in 0 .. (p_sub(c).subDomainSize * c.NC) - 1 |->
        IF i \in DOMAIN msg THEN msg[i] ELSE g]

\* line 190
localIdx(c, pt) ==
    ((pt[3] * p_sub(c).subDomainSizeY + pt[2]) * p_sub(c).subDomainSizeX) + pt[1]

\* line 231
neighborIdx(c, pt, off, t) ==
    ((((pt[3] + off[3]) * p_sub(c).subDomainSizeX * p_sub(c).subDomainSizeY)
        + ((pt[2] + off[2]) * p_sub(c).subDomainSizeX) + (pt[1] + off[1])) * c.NC) + t

\* lines 220-224
neighborOffsets ==
    {<<-1, 0, 0>>, <<1, 0, 0>>, <<0, -1, 0>>, <<0, 1, 0>>, <<0, 0, -1>>, <<0, 0, 1>>}

\* lines 211-213
p_interior(c, pt) ==
    /\ pt[1] > 0 /\ pt[1] < p_sub(c).subDomainSizeX - 1
    /\ pt[2] > 0 /\ pt[2] < p_sub(c).subDomainSizeY - 1
    /\ pt[3] > 0 /\ pt[3] < p_sub(c).subDomainSizeZ - 1

\* lines 216-243
isMin(c, data, pt, t) ==
    \A off \in neighborOffsets : ~(data[localIdx(c, pt) + t] >= data[neighborIdx(c, pt, off, t)])

isMax(c, data, pt, t) ==
    \A off \in neighborOffsets : ~(data[localIdx(c, pt) + t] <= data[neighborIdx(c, pt, off, t)])

\* lines 176-255: the whole compute loop
p_compute(c, data) ==
    LET pts == (0 .. p_sub(c).subDomainSizeX - 1) \X (0 .. p_sub(c).subDomainSizeY - 1)
                  \X (0 .. p_sub(c).subDomainSizeZ - 1)
        inner == {pt \in pts : p_interior(c, pt)}
    IN  [localMinimaCount |->
            [t \in 0 .. c.NC - 1 |-> Cardinality({pt \in inner : isMin(c, data, pt, t)})],
         localMaximaCount |->
            [t \in 0 .. c.NC - 1 |-> Cardinality({pt \in inner : isMax(c, data, pt, t)})],
         subDomainMinValues |->
            [t \in 0 .. c.NC - 1 |->
                SetMin({data[localIdx(c, pt) + t] : pt \in pts} \cup {DBL_MAX})],
         subDomainMaxValues |->
            [t \in 0 .. c.NC - 1 |->
                SetMax({data[localIdx(c, pt) + t] : pt \in pts} \cup {0 - DBL_MAX})]]

p_Ranks == 0 .. p_cfg.size - 1

\* lines 271-276: what the k-th MPI_Reduce leaves at the root
p_reduced(k) ==
    [t \in 0 .. p_cfg.NC - 1 |->
        CASE k = 0 -> SumOver([w \in p_Ranks |-> p_part[w].localMinimaCount], p_cfg.size - 1, t)
          [] k = 1 -> SumOver([w \in p_Ranks |-> p_part[w].localMaximaCount], p_cfg.size - 1, t)
          [] k = 2 -> SetMin({p_part[w].subDomainMinValues[t] : w \in p_Ranks})
          [] k = 3 -> SetMax({p_part[w].subDomainMaxValues[t] : w \in p_Ranks})]

OthersP == UNCHANGED <<varsS, varsR, varsV, varsQ>>

\* lines 38-44
PGridCheck(w) ==
    /\ p_pc[w] = "start"
    /\ p_pc' = [p_pc EXCEPT ![w] =
                   IF p_cfg.PX * p_cfg.PY * p_cfg.PZ # p_cfg.size THEN "exit1"
                   ELSE IF w = 0 THEN "own" ELSE "recv"]
    /\ UNCHANGED <<p_cfg, p_global, p_p, p_chan, p_local, p_part, p_k, p_res, p_out>>
    /\ OthersP

\* lines 117-129
PKeepOwn ==
    /\ p_pc[0] = "own"
    /\ p_local' = [p_local EXCEPT ![0] = p_block(p_cfg, p_global, p_self(p_cfg, 0))]
    /\ p_p' = 1
    /\ p_pc' = [p_pc EXCEPT ![0] = IF 1 < p_cfg.size THEN "send" ELSE "compute"]
    /\ UNCHANGED <<p_cfg, p_global, p_chan, p_part, p_k, p_res, p_out>>
    /\ OthersP

\* lines 132-161: one pass of the send loop
PSend ==
    /\ p_pc[0] = "send"
    /\ p_chan' = [p_chan EXCEPT ![p_p] = Append(@, p_message(p_cfg, p_global, p_p))]
    /\ p_p' = p_p + 1
    /\ p_pc' = [p_pc EXCEPT ![0] = IF p_p + 1 < p_cfg.size THEN "send" ELSE "compute"]
    /\ UNCHANGED <<p_cfg, p_global, p_local, p_part, p_k, p_res, p_out>>
    /\ OthersP

\* line 164
PRecv(w) ==
    /\ p_pc[w] = "recv"
    /\ p_chan[w] # <<>>
    /\ \E g \in Garbage :
          p_local' = [p_local EXCEPT ![w] = p_received(p_cfg, Head(p_chan[w]), g)]
    /\ p_chan' = [p_chan EXCEPT ![w] = Tail(@)]
    /\ p_pc' = [p_pc EXCEPT ![w] = "compute"]
    /\ UNCHANGED <<p_cfg, p_global, p_p, p_part, p_k, p_res, p_out>>
    /\ OthersP

\* lines 176-255
PCompute(w) ==
    /\ p_pc[w] = "compute"
    /\ p_part' = [p_part EXCEPT ![w] = p_compute(p_cfg, p_local[w])]
    /\ p_pc' = [p_pc EXCEPT ![w] = "reduce"]
    /\ UNCHANGED <<p_cfg, p_global, p_p, p_chan, p_local, p_k, p_res, p_out>>
    /\ OthersP

\* lines 271-289, a rank other than the root
PReduce(w) ==
    /\ w # 0
    /\ p_pc[w] = "reduce"
    /\ p_k' = [p_k EXCEPT ![w] = @ + 1]
    /\ p_pc' = [p_pc EXCEPT ![w] = IF p_k[w] + 1 = NumReduces THEN "done" ELSE "reduce"]
    /\ UNCHANGED <<p_cfg, p_global, p_p, p_chan, p_local, p_part, p_res, p_out>>
    /\ OthersP

\* lines 271-289, the root: the reduction returns once every rank has entered
\* it; the fifth one carries the timings only
PReduceRoot ==
    /\ p_pc[0] = "reduce"
    /\ \A w \in p_Ranks \ {0} : p_k[w] > p_k[0]
    /\ p_res' = IF p_k[0] < 4 THEN (p_k[0] :> p_reduced(p_k[0])) @@ p_res ELSE p_res
    /\ p_k' = [p_k EXCEPT ![0] = @ + 1]
    /\ p_pc' = [p_pc EXCEPT ![0] = IF p_k[0] + 1 = NumReduces THEN "output" ELSE "reduce"]
    /\ UNCHANGED <<p_cfg, p_global, p_p, p_chan, p_local, p_part, p_out>>
    /\ OthersP

\* lines 292-325
PWriteOutput ==
    /\ p_pc[0] = "output"
    /\ p_out' = <<[t \in 0 .. p_cfg.NC - 1 |-> <<p_res[0][t], p_res[1][t]>>],
                  [t \in 0 .. p_cfg.NC - 1 |-> <<p_res[2][t], p_res[3][t]>>]>>
    /\ p_pc' = [p_pc EXCEPT ![0] = "done"]
    /\ UNCHANGED <<p_cfg, p_global, p_p, p_chan, p_local, p_part, p_k, p_res>>
    /\ OthersP

StartP(c, f) ==
    /\ p_cfg = c
    /\ p_global = f
    /\ p_pc = [w \in 0 .. c.size - 1 |-> "start"]
    /\ p_p = 0
    /\ p_chan = [w \in 0 .. c.size - 1 |-> <<>>]
    /\ p_local = [w \in 0 .. c.size - 1 |-> EmptyFn]
    /\ p_part = [w \in 0 .. c.size - 1 |-> EmptyFn]
    /\ p_k = [w \in 0 .. c.size - 1 |-> 0]
    /\ p_res = EmptyFn
    /\ p_out = <<>>

\* ========================================================= specifications
\* each program is checked on its own; the others stay as they start
IdleR == gr_size = 0 /\ gr_total = 0 /\ gr_rank = 0 /\ gr_out = <<>>
IdleS == StartS(Cfg(1, 1, 1, 1, 1, 1, 1), FieldOfSeq(<<0>>))
IdleV == StartV(Cfg(1, 1, 1, 1, 1, 1, 1), FieldOfSeq(<<0>>), FALSE)
IdleQ == StartQ(Cfg(1, 1, 1, 1, 1, 1, 1), FieldOfSeq(<<0>>))
IdleP == StartP(Cfg(1, 1, 1, 1, 1, 1, 1), FieldOfSeq(<<0>>))

\* ------------------------------------------------------ sainikhil_code/src.c
Init ==
    /\ \E inp \in Inputs : StartS(inp[1], inp[2])
    /\ IdleR /\ IdleV /\ IdleQ /\ IdleP

Next ==
    \/ \E w \in Ranks : GridCheck(w)
    \/ Distribute
    \/ \E w \in Ranks : Receive(w)
    \/ \E w \in Ranks : FillHalo(w)
    \/ \E w \in Ranks : SendrecvLeft(w)
    \/ \E w \in Ranks : SendrecvLeftDone(w)
    \/ \E w \in Ranks : SendrecvRight(w)
    \/ \E w \in Ranks : SendrecvRightDone(w)
    \/ \E w \in Ranks : Classify(w)
    \/ \E w \in Ranks : AllreduceMin(w)
    \/ \E w \in Ranks : AllreduceMinDone(w)
    \/ \E w \in Ranks : AllreduceMax(w)
    \/ \E w \in Ranks : AllreduceMaxDone(w)
    \/ \E w \in Ranks : ReduceMins(w)
    \/ ReduceMinsRoot
    \/ \E w \in Ranks : ReduceMaxs(w)
    \/ ReduceMaxsRoot
    \/ WriteOutput
    \/ \E w \in Ranks : Finalize(w)

Spec == Init /\ [][Next]_vars

\* ------------------------------------------------- get_range on its own
\* get_range asked for every worker coordinate of one axis, in increasing order
InitRange ==
    /\ gr_size \in 1 .. MaxExtent
    /\ gr_total \in 1 .. gr_size
    /\ gr_rank = 0
    /\ gr_out = <<>>
    /\ IdleS /\ IdleV /\ IdleQ /\ IdleP

GetRangeCall ==
    /\ gr_rank < gr_total
    /\ gr_out' = Append(gr_out, get_range(gr_rank, gr_total, gr_size))
    /\ gr_rank' = gr_rank + 1
    /\ UNCHANGED <<gr_size, gr_total>>
    /\ UNCHANGED <<varsS, varsV, varsQ, varsP>>

NextRange == GetRangeCall

SpecRange == InitRange /\ [][NextRange]_vars

\* ------------------------------------------------------------ Venkatesh/1.c
\* MPI_Send of a standard-mode message may buffer it or wait for the receive
InitV ==
    /\ \E inp \in Inputs : \E sync \in BOOLEAN : StartV(inp[1], inp[2], sync)
    /\ IdleS /\ IdleR /\ IdleQ /\ IdleP

NextV ==
    \/ \E w \in v_Ranks : VGridCheck(w)
    \/ VKeepOwn
    \/ VSend
    \/ VSendReturn
    \/ \E w \in v_Ranks : VRecv(w)
    \/ \E w \in v_Ranks : VCompute(w)
    \/ \E w \in v_Ranks : VReduce(w)
    \/ VReduceRoot

SpecV == InitV /\ [][NextV]_vars

\* ------------------------------- Venkatesh/1.c with synchronous sends
\* every MPI_Send returns only once its message has been received; a rank
\* that can take its next step takes it
InitVSync ==
    /\ \E inp \in Inputs : StartV(inp[1], inp[2], TRUE)
    /\ IdleS /\ IdleR /\ IdleQ /\ IdleP

SpecVSync == InitVSync /\ [][NextV]_vars /\ WF_vars(NextV)

\* ----------------------------------------------------- Pankaj/pankaj_code2.c
InitQ ==
    /\ \E inp \in Inputs : StartQ(inp[1], inp[2])
    /\ IdleS /\ IdleR /\ IdleV /\ IdleP

NextQ ==
    \/ \E w \in q_Ranks : QGridCheck(w)
    \/ QKeepOwn
    \/ QSend
    \/ \E w \in q_Ranks : QRecv(w)
    \/ \E w \in q_Ranks : QCompute(w)
    \/ \E w \in q_Ranks : QReduce(w)
    \/ QReduceRoot
    \/ QWriteOutput

SpecQ == InitQ /\ [][NextQ]_vars

\* ------------------------------------------------------ Pankaj/pankaj_code.c
InitP ==
    /\ \E inp \in Inputs : StartP(inp[1], inp[2])
    /\ IdleS /\ IdleR /\ IdleV /\ IdleQ

NextP ==
    \/ \E w \in p_Ranks : PGridCheck(w)
    \/ PKeepOwn
    \/ PSend
    \/ \E w \in p_Ranks : PRecv(w)
    \/ \E w \in p_Ranks : PCompute(w)
    \/ \E w \in p_Ranks : PReduce(w)
    \/ PReduceRoot
    \/ PWriteOutput

SpecP == InitP /\ [][NextP]_vars

\* ------------------------------------------------- src.c, with progress
\* a rank that can take its next step takes it: every process keeps running,
\* and the run is finite
InitFair ==
    /\ \E inp \in ExchangeInputs : StartS(inp[1], inp[2])
    /\ IdleR /\ IdleV /\ IdleQ /\ IdleP

SpecFair == InitFair /\ [][Next]_vars /\ WF_vars(Next)

\* ------------------------------- src.c with more workers than points
InitZeroPoint ==
    /\ \E inp \in ZeroPointInputs : StartS(inp[1], inp[2])
    /\ IdleR /\ IdleV /\ IdleQ /\ IdleP

SpecZeroPoint == InitZeroPoint /\ [][Next]_vars

\* ------------------------------------------- any one of the four programs
\* one of the programs is started, on a process grid that may not fit the
\* number of processes; the programs not started stay idle
InitPrograms ==
    \/ (\E inp \in GridInputs : StartS(inp[1], inp[2])) /\ IdleR /\ IdleV /\ IdleQ /\ IdleP
    \/ (\E inp \in GridInputs : StartV(inp[1], inp[2], FALSE)) /\ IdleR /\ IdleS /\ IdleQ /\ IdleP
    \/ (\E inp \in GridInputs : StartQ(inp[1], inp[2])) /\ IdleR /\ IdleS /\ IdleV /\ IdleP
    \/ (\E inp \in GridInputs : StartP(inp[1], inp[2])) /\ IdleR /\ IdleS /\ IdleV /\ IdleQ

NextPrograms ==
    \/ IdleV /\ IdleQ /\ IdleP /\ Next
    \/ IdleS /\ IdleQ /\ IdleP /\ NextV
    \/ IdleS /\ IdleV /\ IdleP /\ NextQ
    \/ IdleS /\ IdleV /\ IdleQ /\ NextP

SpecPrograms == InitPrograms /\ [][NextPrograms]_vars

\* ======================================================== the claims
\* ------------------------------------------------ what the claims refer to
\* the global point index of (x, y, z) in input order
GIdx(c, x, y, z) == (z * (c.NX * c.NY)) + (y * c.NX) + x

GlobalPoints(c) == (0 .. c.NX - 1) \X (0 .. c.NY - 1) \X (0 .. c.NZ - 1)

\* the 6-connected neighbours of a point that lie inside the global domain
PresentNeighbours(c, pt) ==
    { nb \in GlobalPoints(c) :
        \/ nb[1] # pt[1] /\ nb[2] = pt[2] /\ nb[3] = pt[3]
           /\ (nb[1] = pt[1] - 1 \/ nb[1] = pt[1] + 1)
        \/ nb[1] = pt[1] /\ nb[2] # pt[2] /\ nb[3] = pt[3]
           /\ (nb[2] = pt[2] - 1 \/ nb[2] = pt[2] + 1)
        \/ nb[1] = pt[1] /\ nb[2] = pt[2] /\ nb[3] # pt[3]
           /\ (nb[3] = pt[3] - 1 \/ nb[3] = pt[3] + 1) }

ValueAt(c, f, pt, t) == f[GIdx(c, pt[1], pt[2], pt[3])][t]

StrictMinima(c, f, t) ==
    { pt \in GlobalPoints(c) :
        \A nb \in PresentNeighbours(c, pt) : ValueAt(c, f, pt, t) < ValueAt(c, f, nb, t) }
StrictMaxima(c, f, t) ==
    { pt \in GlobalPoints(c) :
        \A nb \in PresentNeighbours(c, pt) : ValueAt(c, f, pt, t) > ValueAt(c, f, nb, t) }

FieldMin(c, f, t) == SetMin({ValueAt(c, f, pt, t) : pt \in GlobalPoints(c)})
FieldMax(c, f, t) == SetMax({ValueAt(c, f, pt, t) : pt \in GlobalPoints(c)})

\* worker r's value at its local point (x, y, z), 0-based (the layout of line 156)
LocalAt(c, r, x, y, z, t) ==
    local_data[r][(z * y_local(c, r) * x_local(c, r)) + (y * x_local(c, r)) + x][t]

Distributed(w) == pc[w] \notin {"start", "dist", "recv", "exit1"}

\* C1: for axisExtent >= numWorkers > 0 the ranges get_range returns for the
\* worker coordinates 0, 1, ... are non-empty, start at 0, each starts right
\* after the one before it ends, are pairwise disjoint, and once all numWorkers
\* have been returned their union is exactly 0 .. axisExtent-1.
C1_PartitionCoverage ==
    /\ \A n \in 1 .. Len(gr_out) :
          /\ gr_out[n].start <= gr_out[n].end
          /\ gr_out[n].size = gr_out[n].end - gr_out[n].start + 1
    /\ Len(gr_out) > 0 => gr_out[1].start = 0
    /\ \A n \in 1 .. Len(gr_out) - 1 : gr_out[n + 1].start = gr_out[n].end + 1
    /\ \A m, n \in 1 .. Len(gr_out) :
          m # n => (gr_out[m].start .. gr_out[m].end) \cap (gr_out[n].start .. gr_out[n].end) = {}
    /\ (gr_total > 0 /\ Len(gr_out) = gr_total) =>
          UNION {gr_out[n].start .. gr_out[n].end : n \in 1 .. Len(gr_out)} = 0 .. gr_size - 1

\* every range of an axis whose extent the workers do not divide has been returned
C1_Witness ==
    /\ gr_total >= 3
    /\ gr_size % gr_total # 0
    /\ Len(gr_out) = gr_total

\* C2: once a worker (rank 0 included) holds its block, local_data[idx][t] of
\* every owned local point (x, y, z) and timestep t is the input value at the
\* global coordinate (x_range.start + x, y_range.start + y, z_range.start + z).
C2_RoundTrip ==
    \A w \in Ranks :
        Distributed(w) =>
            LET xr == x_range(cfg, w)
                yr == y_range(cfg, w)
                zr == z_range(cfg, w)
            IN  /\ DOMAIN local_data[w] = 0 .. local_points(cfg, w) - 1
                /\ \A x \in 0 .. xr.size - 1, y \in 0 .. yr.size - 1,
                      z \in 0 .. zr.size - 1, t \in Steps :
                      local_data[w][(z * yr.size * xr.size) + (y * xr.size) + x][t] =
                          global_data[GIdx(cfg, xr.start + x, yr.start + y,
                                           zr.start + z)][t]

\* four workers with blocks of different shapes all hold their blocks
C2_Witness ==
    /\ cfg = CfgGrid4
    /\ \A w \in Ranks : pc[w] = "fill"

\* the extent of worker r's block along dimension d
LocalExt(c, r, d) == <<x_local(c, r), y_local(c, r), z_local(c, r)>>[d]

\* C3: when a worker has completed the halo exchange of a timestep, for each of
\* its 6 faces with a live neighbour the ghost layer on that face equals, cell
\* by cell, the neighbour's owned boundary layer adjacent to that face.
C3_HaloCorrect ==
    \A w \in Ranks :
        pc[w] = "classify" =>
            \A d \in 1 .. 3, side \in 1 .. 2 :
                LET nb == MPI_Cart_shift(cfg, w, d)[side]
                IN  (nb # MPI_PROC_NULL /\ Distributed(nb)) =>
                        \A cell \in Interior(cfg, w) :
                            LET ghost == [cell EXCEPT ![d] =
                                             IF side = 1 THEN 0 ELSE LocalExt(cfg, w, d) + 1]
                                theirs == [cell EXCEPT ![d] =
                                             IF side = 1 THEN LocalExt(cfg, nb, d) ELSE 1]
                            IN  halo[w][ghost] =
                                    LocalAt(cfg, nb, theirs[1] - 1, theirs[2] - 1,
                                            theirs[3] - 1, tstep[w])

\* C4: the counts rank 0 writes for timestep t are the number of points of the
\* global domain strictly below, and strictly above, all their present neighbours.
C4_EndToEndCounts ==
    out # EmptyFn =>
        \A t \in Steps :
            out.counts[t] = <<Cardinality(StrictMinima(cfg, global_data, t)),
                              Cardinality(StrictMaxima(cfg, global_data, t))>>

IsFlatField(f) == \A g1 \in DOMAIN f : \A g2 \in DOMAIN f : f[g1] = f[g2]

\* C6: pankaj_code2.c run on a domain of at least two points whose values are
\* all identical writes the counts (0, 0) for every timestep.
C6_FlatFieldZero ==
    (q_out # <<>> /\ NPoints(q_cfg) >= 2 /\ IsFlatField(q_global)) =>
        \A t \in 0 .. q_cfg.NC - 1 : q_out[1][t] = <<0, 0>>

\* ------------------------------------------------ the run as a function
\* The halo of worker w at timestep t after the x-direction exchange, for a run
\* on field f whose face transfers stay inside their rows: the composition of
\* Distribute/Receive, FillHalo and the two MPI_Sendrecv.
RunHalo(c, f, w, t) ==
    LET filled(r) ==
            FilledHalo(c, Unpack(c, PackBuffer(c, f, r), local_points(c, r)), r, t)
        left == MPI_Cart_shift(c, w, 1)[1]
        right == MPI_Cart_shift(c, w, 1)[2]
        h0 == filled(w)
        h1 == IF left = MPI_PROC_NULL THEN h0
              ELSE RecvBuf(c, h0, w, 0,
                           SendBuf(c, filled(left), left, x_local(c, left), 0), <<>>)
    IN  IF right = MPI_PROC_NULL THEN h1
        ELSE RecvBuf(c, h1, w, x_local(c, w) + 1,
                     SendBuf(c, filled(right), right, 1, 0), <<>>)

RECURSIVE RunCount(_, _, _, _, _)
RunCount(c, f, n, t, which) ==
    IF n < 0 THEN 0
    ELSE RunCount(c, f, n - 1, t, which)
         + (IF which = "min" THEN cnt_min(c, RunHalo(c, f, n, t), n)
                             ELSE cnt_max(c, RunHalo(c, f, n, t), n))

\* what rank 0 writes for timestep t in a run on field f
RunCounts(c, f, t) ==
    <<RunCount(c, f, c.size - 1, t, "min"), RunCount(c, f, c.size - 1, t, "max")>>
RunValues(c, f, t) ==
    <<SetMin({lmin(c, RunHalo(c, f, w, t), w) : w \in 0 .. c.size - 1}),
      SetMax({lmax(c, RunHalo(c, f, w, t), w) : w \in 0 .. c.size - 1})>>

NoOverrun == \A w \in Ranks : ~Overruns(cfg, w)

\* the run function agrees with the run whenever no face transfer leaves its row
RunAgrees ==
    (out # EmptyFn /\ NoOverrun) =>
        \A t \in Steps :
            /\ out.counts[t] = RunCounts(cfg, global_data, t)
            /\ out.values[t] = RunValues(cfg, global_data, t)

\* C7: the run on the negated field reports, for every timestep, the minimum
\* and maximum counts of the run on the field exchanged, and as minimum and
\* maximum values the negated maximum and the negated minimum.
C7_ExtremumSymmetry ==
    (out # EmptyFn /\ NoOverrun) =>
        \A t \in Steps :
            /\ RunCounts(cfg, Negated(global_data), t) = <<out.counts[t][2], out.counts[t][1]>>
            /\ RunValues(cfg, Negated(global_data), t) =
                   <<0 - out.values[t][2], 0 - out.values[t][1]>>

TwoWorkerRun == cfg = CfgTwoWorker /\ global_data = FieldTwoWorker

PastExchange(w) ==
    pc[w] \in {"classify", "ar_min", "ar_min_wait", "ar_max", "ar_max_wait",
               "red_mins", "red_mins_wait", "red_maxs", "red_maxs_wait",
               "output", "finalize", "done"}
PastClassify(w) == PastExchange(w) /\ pc[w] # "classify"

\* C8: in the 4x1x1 run on {5,1,1,9} with PX = 2, after the halo exchange
\* worker 0's right ghost cell and worker 1's left ghost cell both hold 1;
\* point 1 (worker 0's second point) is not counted as a local minimum and
\* point 3 (worker 1's second point) is counted as a local maximum.
C8_TwoWorkerScenario ==
    TwoWorkerRun =>
        /\ PastExchange(0) => halo[0][<<3, 1, 1>>] = 1
        /\ PastExchange(1) => halo[1][<<0, 1, 1>>] = 1
        /\ PastClassify(0) =>
              /\ ~is_min(cfg, halo[0], 0, <<2, 1, 1>>)
              /\ local_mins[0][0] = 0
        /\ PastClassify(1) =>
              /\ is_max(cfg, halo[1], 1, <<2, 1, 1>>)
              /\ ~is_max(cfg, halo[1], 1, <<1, 1, 1>>)
              /\ local_maxs[1][0] = 1
        /\ out # EmptyFn => out.counts[0] = <<0, 2>>

\* the scenario has run to its output
C8_Witness == TwoWorkerRun /\ out # EmptyFn /\ pc[1] = "done"

EndToEndRun == cfg = CfgEndToEnd /\ global_data = FieldEndToEnd

\* C9: the single-worker 2x2x2 run on {0,7,3,9,1,8,4,2} reports the values 0
\* and 9, and as counts the numbers of points that are strict local minima and
\* maxima among their in-bounds neighbours (2 and 3).
C9_EndToEndScenario ==
    (EndToEndRun /\ out # EmptyFn) =>
        /\ out.values[0] = <<0, 9>>
        /\ out.counts[0] = <<Cardinality(StrictMinima(cfg, global_data, 0)),
                             Cardinality(StrictMaxima(cfg, global_data, 0))>>
        /\ out.counts[0] = <<2, 3>>

C9_Witness == EndToEndRun /\ out # EmptyFn /\ pc[0] = "done"

\* C10: in 1.c rank 0 calls MPI_Send once for every other rank r, with the
\* element count of r's MPI_Recv, and once both have left the distribution no
\* message for r is still in flight.
C10_SendRecvMatched ==
    \A r \in v_Ranks \ {0} :
        /\ v_sent[r] <= 1
        /\ v_pc[0] = "compute" => v_sent[r] = 1
        /\ \A i \in 1 .. Len(v_chan[r]) :
              Cardinality(DOMAIN v_chan[r][i]) = recv_size(v_cfg, r)
        /\ (v_pc[0] = "compute" /\ v_pc[r] = "compute") => v_chan[r] = <<>>

\* C11: in 1.c, for every rank r the start and size of r's block on each axis
\* as rank 0 computes them when packing for r are those r computes for itself,
\* also when the workers do not divide the extent, so every message sent to r
\* has the element count of r's MPI_Recv.
C11_PartitionConsistent ==
    \A r \in v_Ranks :
        /\ v_rblock(v_cfg, r) = v_block(v_cfg, r)
        /\ \A i \in 1 .. Len(v_chan[r]) :
              Cardinality(DOMAIN v_chan[r][i]) = recv_size(v_cfg, r)

\* a message is in flight to a rank whose axis the workers do not divide
C11_Witness ==
    /\ v_cfg.size = 2
    /\ \/ v_cfg.NX % v_cfg.PX # 0
       \/ v_cfg.NY % v_cfg.PY # 0
       \/ v_cfg.NZ % v_cfg.PZ # 0
    /\ v_chan[1] # <<>>

\* C12: in pankaj_code.c, for every rank p the position (posX, posY, posZ) rank
\* 0 slices p's block at is the position (subDomainX, subDomainY, subDomainZ)
\* p computes for itself, and so are the start indices.
C12_RankCoordinates ==
    \A p \in p_Ranks :
        p_pc[p] \notin {"start", "exit1"} => p_pos(p_cfg, p) = p_self(p_cfg, p)

\* C15: in pankaj_code.c a rank leaves MPI_Recv for the compute phase only
\* when the number of elements transferred to it is the size of its block
\* (subDomainSize points times timeSteps); otherwise the run is aborted.
C15_TransferSizeChecked ==
    [][\A w \in p_Ranks \ {0} :
          (p_pc[w] = "recv" /\ p_pc'[w] = "compute") =>
              Cardinality(DOMAIN Head(p_chan[w])) = p_sub(p_cfg).subDomainSize * p_cfg.NC]_vars

\* C13: in each of the four programs, when PX*PY*PZ is not the number of
\* processes every rank is either about to make the grid check, which it can
\* always do, or has returned 1 from it; no block has been filled, no message
\* sent and no output written.
C13_GridMismatchExits ==
    /\ Mismatch(cfg) =>
          /\ \A w \in Ranks :
                /\ pc[w] \in {"start", "exit1"}
                /\ pc[w] = "start" => ENABLED GridCheck(w)
                /\ local_data[w] = EmptyFn
          /\ \A k \in DOMAIN chan : chan[k] = <<>>
          /\ out = EmptyFn
    /\ Mismatch(v_cfg) =>
          /\ \A w \in v_Ranks :
                /\ v_pc[w] \in {"start", "exit1"}
                /\ v_pc[w] = "start" => ENABLED VGridCheck(w)
                /\ v_local[w] = EmptyFn
                /\ v_chan[w] = <<>>
                /\ v_sent[w] = 0
    /\ Mismatch(q_cfg) =>
          /\ \A w \in q_Ranks :
                /\ q_pc[w] \in {"start", "exit1"}
                /\ q_pc[w] = "start" => ENABLED QGridCheck(w)
                /\ q_local[w] = EmptyFn
                /\ q_chan[w] = <<>>
          /\ q_out = <<>>
    /\ Mismatch(p_cfg) =>
          /\ \A w \in p_Ranks :
                /\ p_pc[w] \in {"start", "exit1"}
                /\ p_pc[w] = "start" => ENABLED PGridCheck(w)
                /\ p_local[w] = EmptyFn
                /\ p_chan[w] = <<>>
          /\ p_out = <<>>

\* two processes started on a grid of four have both returned 1
C13_Witness ==
    /\ Mismatch(cfg)
    /\ cfg.size = 2
    /\ \A w \in Ranks : pc[w] = "exit1"

\* C14: src.c started with fewer points than workers along an axis signals a
\* configuration error before any data movement: every rank is at the grid
\* check or has returned 1 from it, no block has been filled, no message sent
\* and no output written.
C14_ZeroPointRejected ==
    ZeroPoint(cfg) =>
        /\ \A w \in Ranks : pc[w] \in {"start", "exit1"} /\ local_data[w] = EmptyFn
        /\ \A k \in DOMAIN chan : chan[k] = <<>>
        /\ out = EmptyFn

\* the sum of f[w][t] over the workers in W
RECURSIVE Total(_, _, _)
Total(f, W, t) ==
    IF W = {} THEN 0
    ELSE LET w == CHOOSE x \in W : TRUE IN f[w][t] + Total(f, W \ {w}, t)

\* C16: the counts rank 0 of src.c writes for timestep t are the sums over all
\* workers of local_mins[t] and of local_maxs[t], and when they are written
\* every worker has finished every timestep and handed its counts to both
\* MPI_Reduce calls.
C16_ReducerSums ==
    out # EmptyFn =>
        /\ \A t \in Steps :
              out.counts[t] = <<Total(local_mins, Ranks, t), Total(local_maxs, Ranks, t)>>
        /\ \A w \in Ranks :
              /\ tstep[w] = cfg.NC
              /\ w \in DOMAIN red_mins /\ red_mins[w] = local_mins[w]
              /\ w \in DOMAIN red_maxs /\ red_maxs[w] = local_maxs[w]

\* the output is written from counts to which the second worker added a minimum
C16_Witness ==
    /\ out # EmptyFn
    /\ cfg.size = 2
    /\ cfg.NC = 2
    /\ local_mins[1][0] > 0

\* the global coordinate the halo cell nb of worker w stands for lies outside
\* the domain
OutsideDomain(c, w, nb) ==
    LET xr == x_range(c, w)
        yr == y_range(c, w)
        zr == z_range(c, w)
    IN  \/ xr.start + nb[1] - 1 \notin 0 .. c.NX - 1
        \/ yr.start + nb[2] - 1 \notin 0 .. c.NY - 1
        \/ zr.start + nb[3] - 1 \notin 0 .. c.NZ - 1

\* C17: when a worker of src.c classifies, for every owned point the ghost
\* cells in those of its 6 directions whose neighbour lies outside the global
\* domain are not compared: whatever they hold, the point's minimum and
\* maximum status are the same.
C17_AbsentSkipped ==
    \A w \in Ranks :
        pc[w] = "classify" =>
            \A cell \in Interior(cfg, w) :
                LET h == halo[w]
                    around == {neighbors(cell[1], cell[2], cell[3])[n] : n \in 1 .. 6}
                    absent == {nb \in around : OutsideDomain(cfg, w, nb)}
                    min0 == is_min(cfg, h, w, cell)
                    max0 == is_max(cfg, h, w, cell)
                IN  absent # {} =>
                        \A v \in {0 - FLT_MAX, h[cell], FLT_MAX} :
                            LET g == [c \in around \cup {cell} |->
                                        IF c \in absent THEN v ELSE h[c]]
                            IN  /\ is_min(cfg, g, w, cell) = min0
                                /\ is_max(cfg, g, w, cell) = max0

\* the last worker of a 2x2 process grid, with live and absent neighbours,
\* is about to classify
C17_Witness ==
    /\ cfg = CfgGrid4
    /\ pc[3] = "classify"

\* C18: src.c run by one worker on a 1x1x1 domain writes the counts (1, 1) for
\* every timestep: the single point has no present neighbour.
C18_SinglePoint ==
    (NPoints(cfg) = 1 /\ cfg.size = 1 /\ out # EmptyFn) =>
        /\ PresentNeighbours(cfg, <<0, 0, 0>>) = {}
        /\ \A t \in Steps : out.counts[t] = <<1, 1>>

\* the output of a 1x1x1 run of two timesteps
C18_Witness ==
    /\ NPoints(cfg) = 1
    /\ cfg.size = 1
    /\ cfg.NC = 2
    /\ out # EmptyFn

\* C19: of the three timings src.c writes, the compute time is the largest
\* main_time any worker measured, and the total time is no less than that; the
\* read time likewise is a maximum over the workers, not a constant.
C19_TimerMax ==
    out # EmptyFn =>
        /\ out.times[2] = SetMax({main_time[w] : w \in Ranks})
        /\ out.times[3] >= SetMax({main_time[w] : w \in Ranks})

\* the ranks of the largest process grid looked at
AnyRank == 0 .. MaxWorkers

C21_SyncTerminates ==
    <>(\A w \in v_Ranks : v_pc[w] = "done")

\* the cells of the ghost-extended array of rank w next to the cell g along an
\* axis: those with every coordinate at least 0 and below the array extent
v_inside(c, w, g) ==
    LET b == v_block(c, w)
    IN  {nb \in {<<g[1] + nbrs[i][1], g[2] + nbrs[i][2], g[3] + nbrs[i][3]>> : i \in 1 .. 6} :
            /\ nb[1] >= 0 /\ nb[1] < b.nx + 2
            /\ nb[2] >= 0 /\ nb[2] < b.ny + 2
            /\ nb[3] >= 0 /\ nb[3] < b.nz + 2}

\* C22: for every owned point of a rank of Venkatesh/1.c and every timestep,
\* is_min is 0 when a neighbour inside the ghost-extended array holds a
\* strictly smaller value, and is_max is 0 when one holds a strictly larger
\* value.
C22_NeighbourComparison ==
    \A w \in v_Ranks :
        v_pc[w] \in {"compute", "reduce", "done"} =>
            LET b == v_block(v_cfg, w)
                ld == v_local[w]
                at(g, t) == ld[(idx3d(g[1], g[2], g[3], b.nx + 2, b.ny + 2) * v_cfg.NC) + t]
            IN  \A g \in v_owned(v_cfg, w) : \A t \in 0 .. v_cfg.NC - 1 :
                    /\ (\E nb \in v_inside(v_cfg, w, g) : at(nb, t) < at(g, t)) =>
                          ~v_is_min(ld, g[1], g[2], g[3], b.nx + 2, b.ny + 2, b.nz + 2,
                                    t, v_cfg.NC)
                    /\ (\E nb \in v_inside(v_cfg, w, g) : at(nb, t) > at(g, t)) =>
                          ~v_is_max(ld, g[1], g[2], g[3], b.nx + 2, b.ny + 2, b.nz + 2,
                                    t, v_cfg.NC)

\* C23: in src.c, once a worker has filled the halo array of timestep t from
\* sub_data, halo[i][j][k] of every owned cell is the input value at timestep t
\* of the global point (x_range.start+i-1, y_range.start+j-1, z_range.start+k-1).
C23_HaloInterior ==
    \A w \in Ranks :
        pc[w] = "sr_left" =>
            LET xr == x_range(cfg, w)
                yr == y_range(cfg, w)
                zr == z_range(cfg, w)
            IN  \A cell \in Interior(cfg, w) :
                    halo[w][cell] =
                        global_data[GIdx(cfg, xr.start + cell[1] - 1, yr.start + cell[2] - 1,
                                         zr.start + cell[3] - 1)][tstep[w]]

\* lines 188-193: the cell of worker w that element e of a transfer starting
\* at &halo[i][1][1] is read from or stored to: the row halo[i][1] holds the
\* cells k = 0 .. z_local+1; <<>> for an element past the end of the row
Addressed(c, w, i, e) ==
    IF 1 + e <= z_local(c, w) + 1 THEN <<i, 1, 1 + e>> ELSE <<>>

\* the cells j = 1 .. y_local, k = 1 .. z_local of the plane i of worker w
Face(c, w, i) == {i} \X (1 .. y_local(c, w)) \X (1 .. z_local(c, w))

\* C24: in every x-direction MPI_Sendrecv of src.c the y_local*z_local elements
\* sent are the owned cells of the face next to that neighbour, the elements
\* received are stored in the ghost cells of that face, and no element lies
\* past the end of the row the transfer starts in.
C24_ExchangeInFace ==
    \A w \in Ranks :
        LET n == y_local(cfg, w) * z_local(cfg, w)
            xl == x_local(cfg, w)
            left == MPI_Cart_shift(cfg, w, 1)[1]
            right == MPI_Cart_shift(cfg, w, 1)[2]
        IN  /\ (pc[w] \in {"sr_left", "sr_left_wait"} /\ left # MPI_PROC_NULL) =>
                  /\ {Addressed(cfg, w, 1, e) : e \in 0 .. n - 1} = Face(cfg, w, 1)
                  /\ {Addressed(cfg, w, 0, e) : e \in 0 .. n - 1} = Face(cfg, w, 0)
            /\ (pc[w] \in {"sr_right", "sr_right_wait"} /\ right # MPI_PROC_NULL) =>
                  /\ {Addressed(cfg, w, xl, e) : e \in 0 .. n - 1} = Face(cfg, w, xl)
                  /\ {Addressed(cfg, w, xl + 1, e) : e \in 0 .. n - 1} = Face(cfg, w, xl + 1)

\* the ghost-extended block of rank p cut out of the field f, in the order
\* rank p indexes localData: for z, for y, for x over the extended width, the
\* timesteps of a point next to each other
ExtendedBlock(c, f, p) ==
    LET b == q_block(c, p)
    IN  [i \in 0 .. localDataSize(c, p) - 1 |->
            LET pt == BlockPoint(i \div c.NC, b.width, b.height)
            IN  f[threeD_To_oneD(b.tempStartX + pt[1], b.tempStartY + pt[2],
                                 b.tempStartZ + pt[3], c.NX, c.NY, c.NZ)][i % c.NC]]

\* C25: every buffer rank 0 of pankaj_code2.c sends to a rank p, and the
\* localData rank p holds after MPI_Recv, is the ghost-extended block of p cut
\* out of the global field, in the order p indexes localData.
C25_DistributionContent ==
    \A p \in q_Ranks \ {0} :
        /\ \A m \in 1 .. Len(q_chan[p]) :
              q_chan[p][m] = ExtendedBlock(q_cfg, q_global, p)
        /\ q_pc[p] \in {"compute", "reduce", "done"} =>
              q_local[p] = ExtendedBlock(q_cfg, q_global, p)

\* the values of the field f at timestep t alone, one per point in input order
Slice(f, t) == [i \in DOMAIN f |-> f[i][t]]

\* the points of the whole domain
AllPoints(c) == (0 .. c.NX - 1) \X (0 .. c.NY - 1) \X (0 .. c.NZ - 1)

\* C26: pankaj_code2.c run by a single worker on two or more timesteps writes
\* for every timestep t the counts and the extreme values that
\* checkLocalMinima, checkLocalMaxima and the minimum and maximum give on the
\* values of timestep t alone.
C26_PerTimestep ==
    (q_cfg.size = 1 /\ q_cfg.NC >= 2 /\ q_out # <<>>) =>
        \A t \in 0 .. q_cfg.NC - 1 :
            LET d == Slice(q_global, t)
            IN  /\ q_out[1][t] =
                      <<Cardinality({pt \in AllPoints(q_cfg) :
                            checkLocalMinima(d, pt[1], pt[2], pt[3],
                                             q_cfg.NX, q_cfg.NY, q_cfg.NZ)}),
                        Cardinality({pt \in AllPoints(q_cfg) :
                            checkLocalMaxima(d, pt[1], pt[2], pt[3],
                                             q_cfg.NX, q_cfg.NY, q_cfg.NZ)})>>
                /\ q_out[2][t] = <<SetMin({d[i] : i \in DOMAIN d}), SetMax({d[i] : i \in DOMAIN d})>>

\* the local points of a block of pankaj_code.c
p_points(c) ==
    (0 .. p_sub(c).subDomainSizeX - 1) \X (0 .. p_sub(c).subDomainSizeY - 1)
        \X (0 .. p_sub(c).subDomainSizeZ - 1)

\* the offset of the local point pt at timestep t in the layout the block is
\* stored and its neighbours are read in
Linear(c, pt, t) == (localIdx(c, pt) * c.NC) + t

\* C27: a rank of pankaj_code.c that has computed on two or more timesteps
\* holds, for every timestep t, the minimum and the maximum over its local
\* points of localData[((z*subDomainSizeY + y)*subDomainSizeX + x)*timeSteps + t]
\* in subDomainMinValues[t] and subDomainMaxValues[t].
C27_ValueLinearization ==
    \A w \in p_Ranks :
        (p_cfg.NC >= 2 /\ p_pc[w] \in {"reduce", "output", "done"}) =>
            \A t \in 0 .. p_cfg.NC - 1 :
                LET vals == {p_local[w][Linear(p_cfg, pt, t)] : pt \in p_points(p_cfg)}
                IN  /\ p_part[w].subDomainMinValues[t] = SetMin(vals \cup {DBL_MAX})
                    /\ p_part[w].subDomainMaxValues[t] = SetMax(vals \cup {0 - DBL_MAX})

\* C28: in pankaj_code.c every point of a rank's block passes the test that
\* guards the neighbour comparison, whatever its position in the block, and a
\* single worker on one timestep writes the number of points that are below
\* (above) all their present neighbours.
C28_EveryPointClassified ==
    /\ \A w \in p_Ranks :
          p_pc[w] \in {"reduce", "output", "done"} =>
              \A pt \in p_points(p_cfg) : p_interior(p_cfg, pt)
    /\ (p_cfg.size = 1 /\ p_cfg.NC = 1 /\ p_out # <<>>) =>
          p_out[1][0] = <<Cardinality(StrictMinima(p_cfg, p_global, 0)),
                          Cardinality(StrictMaxima(p_cfg, p_global, 0))>>

\* lines 136-157: the global points of the block rank 0 of pankaj_code.c cuts
\* out for rank p: subDomainSize points along each axis from the start index
p_owned(c, p) ==
    LET st == IF p = 0 THEN p_self(c, 0) ELSE p_pos(c, p)
    IN  (st.startX .. st.startX + p_sub(c).subDomainSizeX - 1)
            \X (st.startY .. st.startY + p_sub(c).subDomainSizeY - 1)
            \X (st.startZ .. st.startZ + p_sub(c).subDomainSizeZ - 1)

\* C29: once rank 0 of pankaj_code.c has distributed the field, the blocks of
\* the ranks are pairwise disjoint and every point of the global domain lies in
\* the block of some rank, also when an extent is not a multiple of the number
\* of workers along its axis.
C29_BlocksCover ==
    p_pc[0] \in {"compute", "reduce", "output", "done"} =>
        /\ \A a \in p_Ranks : \A b \in p_Ranks \ {a} :
              p_owned(p_cfg, a) \cap p_owned(p_cfg, b) = {}
        /\ UNION {p_owned(p_cfg, a) : a \in p_Ranks} = GlobalPoints(p_cfg)

\* the global points rank w of pankaj_code2.c classifies: the points of its
\* widened block that pass the test of line 271
Classified(c, w) ==
    LET b == q_block(c, w)
    IN  {<<b.tempStartX + pt[1], b.tempStartY + pt[2], b.tempStartZ + pt[3]>> :
            pt \in q_owned(c, w)}

\* the ranks whose [start, end] ranges contain the global point g
Owners(c, g) ==
    {w \in 0 .. c.size - 1 :
        LET b == q_block(c, w)
        IN  /\ b.startX <= g[1] /\ g[1] <= b.endX
            /\ b.startY <= g[2] /\ g[2] <= b.endY
            /\ b.startZ <= g[3] /\ g[3] <= b.endZ}

RECURSIVE SumCard(_, _)
SumCard(c, n) == IF n < 0 THEN 0 ELSE Cardinality(Classified(c, n)) + SumCard(c, n - 1)

\* C30: when the ranks of pankaj_code2.c have computed, every global point has
\* been classified by exactly one rank, the one whose [start, end] ranges
\* contain it; no rank classifies a point it holds as a ghost copy only, and
\* the ranks classify NX*NY*NZ points in all.
C30_ExactlyOnce ==
    (\A w \in q_Ranks : q_pc[w] \in {"reduce", "output", "done"}) =>
        /\ \A g \in GlobalPoints(q_cfg) :
              /\ Cardinality(Owners(q_cfg, g)) = 1
              /\ {w \in q_Ranks : g \in Classified(q_cfg, w)} = Owners(q_cfg, g)
        /\ \A w \in q_Ranks :
              /\ Classified(q_cfg, w) \subseteq GlobalPoints(q_cfg)
              /\ \A t \in 0 .. q_cfg.NC - 1 :
                    /\ q_part[w].localMinimaCount[t] <= Cardinality(Classified(q_cfg, w))
                    /\ q_part[w].localMaximaCount[t] <= Cardinality(Classified(q_cfg, w))
        /\ SumCard(q_cfg, q_cfg.size - 1) = NPoints(q_cfg)

\* two ranks have computed; the second holds a ghost layer and owns the
\* remainder of an extent that is not a multiple of the worker count
C30_Witness ==
    /\ q_cfg.size = 2
    /\ q_cfg.NX = 3 /\ q_cfg.PX = 2
    /\ \A w \in q_Ranks : q_pc[w] \in {"reduce", "output", "done"}
    /\ localDataSize(q_cfg, 1) > Cardinality(q_owned(q_cfg, 1)) * q_cfg.NC

\* C32: for every worker of src.c that is in the x-direction exchange, the
\* right neighbour MPI_Cart_shift returns along dimension 0 starts in x where
\* the worker ends (its x_range.start is the worker's x_range.end + 1) and has
\* the worker's y_range and z_range; the left neighbour ends in x just before
\* the worker starts and has the same y_range and z_range; so both sides of an
\* exchange count the same y_local*z_local elements.
C32_NeighbourAdjacency ==
    \A w \in Ranks :
        pc[w] \in {"sr_left", "sr_left_wait", "sr_right", "sr_right_wait"} =>
            LET left == MPI_Cart_shift(cfg, w, 1)[1]
                right == MPI_Cart_shift(cfg, w, 1)[2]
            IN  /\ right # MPI_PROC_NULL =>
                      /\ right \in Ranks
                      /\ x_range(cfg, right).start = x_range(cfg, w).end + 1
                      /\ y_range(cfg, right) = y_range(cfg, w)
                      /\ z_range(cfg, right) = z_range(cfg, w)
                      /\ y_local(cfg, right) * z_local(cfg, right)
                            = y_local(cfg, w) * z_local(cfg, w)
                      /\ MPI_Cart_shift(cfg, right, 1)[1] = w
                /\ left # MPI_PROC_NULL =>
                      /\ left \in Ranks
                      /\ x_range(cfg, left).end + 1 = x_range(cfg, w).start
                      /\ y_range(cfg, left) = y_range(cfg, w)
                      /\ z_range(cfg, left) = z_range(cfg, w)
                      /\ y_local(cfg, left) * z_local(cfg, left)
                            = y_local(cfg, w) * z_local(cfg, w)
                      /\ MPI_Cart_shift(cfg, left, 1)[2] = w

\* on the 2 x 2 process grid a worker waits for its right neighbour, which is
\* not the rank after its own, while another waits for its left neighbour
C32_Witness ==
    /\ cfg = CfgGrid4
    /\ \E w \in Ranks :
          /\ pc[w] = "sr_right_wait"
          /\ MPI_Cart_shift(cfg, w, 1)[2] \notin {MPI_PROC_NULL, w + 1}
    /\ \E w \in Ranks :
          /\ pc[w] = "sr_left_wait"
          /\ MPI_Cart_shift(cfg, w, 1)[1] # MPI_PROC_NULL

\* the send that put the message now at the head of the queue from src to dst
HeadPosted(src, dst) ==
    posted[<<src, dst>>][Len(posted[<<src, dst>>]) - Len(chan[<<src, dst>>]) + 1]

\* C31: in src.c the message a worker takes in the left (right) MPI_Sendrecv
\* of timestep t is the one its left (right) neighbour sent towards it in the
\* right (left) MPI_Sendrecv of that neighbour's own iteration t, and the
\* message a worker takes in the distribution MPI_Recv is rank 0's MPI_Send;
\* the only ranks with a message under way to a worker are rank 0 and the
\* worker's x neighbours.
C31_TimestepMatching ==
    \A w \in Ranks :
        LET left == MPI_Cart_shift(cfg, w, 1)[1]
            right == MPI_Cart_shift(cfg, w, 1)[2]
        IN  /\ \A o \in Ranks :
                  /\ Len(chan[<<o, w>>]) <= Len(posted[<<o, w>>])
                  /\ chan[<<o, w>>] # <<>> =>
                        \/ o \in {left, right}
                        \/ o = 0 /\ pc[w] \in {"start", "recv"}
            /\ (pc[w] = "recv" /\ chan[<<0, w>>] # <<>>) =>
                  HeadPosted(0, w).call = "MPI_Send"
            /\ (pc[w] = "sr_left_wait" /\ chan[<<left, w>>] # <<>>) =>
                  HeadPosted(left, w) = [call |-> "right", t |-> tstep[w]]
            /\ (pc[w] = "sr_right_wait" /\ chan[<<right, w>>] # <<>>) =>
                  HeadPosted(right, w) = [call |-> "left", t |-> tstep[w]]

\* in the second timestep of a chain of three workers the first is about to
\* take its right neighbour's face, and the middle one, next to rank 0, is
\* about to take rank 0's face from the queue its distribution message came
\* through
C31_Witness ==
    /\ cfg = CfgChain3
    /\ \E w \in Ranks :
          /\ pc[w] = "sr_right_wait"
          /\ tstep[w] = 1
          /\ chan[<<MPI_Cart_shift(cfg, w, 1)[2], w>>] # <<>>
    /\ \E w \in Ranks :
          /\ pc[w] = "sr_left_wait"
          /\ tstep[w] = 1
          /\ MPI_Cart_shift(cfg, w, 1)[1] = 0
          /\ chan[<<0, w>>] # <<>>
          /\ posted[<<0, w>>][1].call = "MPI_Send"

====
